---- MODULE Spec2Model ----
(***************************************************************************)
(* A model of cxlint (GoogleCloudPlatform/cxlint): the flow loader, the    *)
(* flow graph analyzer, the page/response rules and the rating.            *)
(*                                                                         *)
(* JSON objects are functions whose domain is the set of keys present      *)
(* (dict.get(k, None) is a test of k \in DOMAIN d); Python lists are       *)
(* sequences, Python sets are sets, Python strings are strings.            *)
(***************************************************************************)
EXTENDS Bags, FiniteSets, Integers, Sequences, TLC

(***************************************************************************)
(* Bounds of the model.                                                    *)
(***************************************************************************)
MaxRoutes == 2      \* transition routes listed by one page
MaxPageFiles == 1   \* page files in one flow's pages/ directory
MaxEvents == 1      \* event handlers listed by one page
MaxParams == 2      \* form parameters of one page
MaxCount == 6       \* largest counter value handed to calculate_rating
MaxIntents == 2     \* intent directories of the agent
MaxLangs == 1       \* language files of one intent
MaxTestCases == 1   \* test case files of the agent
MaxTurns == 2       \* conversation turns of one test case

(***************************************************************************)
(* Python string primitives.                                               *)
(***************************************************************************)
\* `sub in s` on Python strings
Contains(s, sub) ==
    \E i \in 1..(Len(s) - Len(sub) + 1) : SubSeq(s, i, i + Len(sub) - 1) = sub

\* s.startswith(p)
StartsWith(s, p) == Len(p) <= Len(s) /\ SubSeq(s, 1, Len(p)) = p

\* s.endswith(p)
EndsWith(s, p) ==
    Len(p) <= Len(s) /\ SubSeq(s, Len(s) - Len(p) + 1, Len(s)) = p

\* s.replace(old, new): every non-overlapping occurrence, left to right
RECURSIVE Replace(_, _, _)
Replace(s, old, new) ==
    IF Len(s) < Len(old) THEN s
    ELSE IF SubSeq(s, 1, Len(old)) = old
         THEN new \o Replace(SubSeq(s, Len(old) + 1, Len(s)), old, new)
         ELSE SubSeq(s, 1, 1) \o Replace(SubSeq(s, 2, Len(s)), old, new)

\* position of the last occurrence of the one-character string ch, 0 if none
RECURSIVE LastIndexOf(_, _, _)
LastIndexOf(s, ch, i) ==
    IF i = 0 THEN 0
    ELSE IF SubSeq(s, i, i) = ch THEN i ELSE LastIndexOf(s, ch, i - 1)

(***************************************************************************)
(* Graph (graph.py): _nodes, _edges (a defaultdict of lists: a key exists  *)
(* once an edge was appended to it), _used_nodes.                          *)
(***************************************************************************)
Graph == [nodes |-> {}, edges |-> <<>>, used_nodes |-> {}]

add_node(g, node) == [g EXCEPT !.nodes = @ \cup {node}]

add_edge(g, node1, node2) ==
    [g EXCEPT !.edges =
        IF node1 \in DOMAIN @
        THEN [@ EXCEPT ![node1] = Append(@, node2)]
        ELSE @ @@ (node1 :> <<node2>>)]

\* add_used_node that records nothing
add_used_node_dropped(g, node) == g

\* Graph.add_used_node
add_used_node(g, node) == [g EXCEPT !.used_nodes = @ \cup {node}]

\* the elements of a list
Range(seq) == {seq[i] : i \in 1..Len(seq)}

(***************************************************************************)
(* Flow and LintStats records (resources/flows.py dataclasses).            *)
(***************************************************************************)
Flow ==
    [display_name |-> "None", filtered |-> FALSE, all_pages |-> {}, active_pages |-> {}, dangling_pages |-> {},
     orphaned_pages |-> {}, unused_pages |-> {}, graph |-> Graph]

LintStats ==
    [total_issues |-> 0, total_inspected |-> 0, total_flows |-> 0,
     total_pages |-> 0, total_intents |-> 0, total_test_cases |-> 0]

\* Intent dataclass (resources/types.py)
Intent ==
    [display_name |-> "None", dir_path |-> "None", filtered |-> FALSE,
     training_phrases |-> <<>>]

\* TestCase dataclass (resources/types.py); None fields are absent keys
TestCase ==
    [dir_path |-> "None", data |-> <<>>, display_name |-> "None",
     tags |-> <<>>, conversation_turns |-> <<>>,
     has_invalid_intent |-> FALSE, qualified |-> FALSE, intent_data |-> <<>>]

\* Flows.__init__: self.special_pages
special_pages ==
    <<"End Session", "End Flow", "Start Page", "Current Page",
      "Previous Page">>

(***************************************************************************)
(* State.                                                                  *)
(***************************************************************************)
VARIABLES
    pc,            \* position inside lint_flows_directory / lint_flow
    flow_paths,    \* flow directories not linted yet
    pages_dir,     \* the agent export: flow directory -> its page files
    include_filter, \* Flows.include_filter
    exclude_filter, \* Flows.exclude_filter
    agent_type,    \* Common.load_agent_type(config)
    disable_map,   \* Common.load_message_controls(config)
    verbose,       \* the linter's verbose switch
    page_paths,    \* page files of the flow not linted yet
    flow,          \* the Flow under analysis (with its Graph)
    stats,         \* the LintStats of the flows pass
    console,       \* bag of the diagnostics logged so far
    route_parameters, \* Flows.route_parameters / Fulfillments.route_parameters
    page,          \* the Page object of the page linted last
    rating,        \* the rating logged at the end of the pass
    args,          \* arguments of the calculate_rating call under test
    intents_dir,   \* the agent export: intent directory -> its files
    intent_paths,  \* intent directories not linted yet
    intent,        \* the Intent linted last
    lang_code_filter, \* Intents.lang_code_filter
    test_case_paths, \* test case files not linted yet
    tc,            \* the TestCase linted last
    tag_filter,    \* TestCases.tag_filter
    display_name_filter, \* TestCases.display_name_filter
    first_run,     \* stats and diagnostics of an earlier run of the pass
    files,         \* the JSON data of the flow and page files of a rerun
    dfs            \* the call stack and the sets of a recurse_edges run

\* the state of the intents pass, of the test cases pass and of a rerun
extVars ==
    <<intents_dir, intent_paths, intent, lang_code_filter, test_case_paths,
      tc, tag_filter, display_name_filter, first_run, files, dfs>>

vars ==
    <<pc, flow_paths, pages_dir, include_filter, exclude_filter, agent_type,
      disable_map, verbose, page_paths, flow, stats, console,
      route_parameters, page, rating, args, extVars>>

\* Python's None where a dict is expected
None == [NoneType |-> TRUE]

IsNone(d) == "NoneType" \in DOMAIN d

\* d.get(key, None) for a dict-valued key
Get(d, key) == IF key \in DOMAIN d THEN d[key] ELSE None

\* str(d.get(key, None)) for a string-valued key
GetStr(d, key) == IF key \in DOMAIN d THEN d[key] ELSE "None"

\* Page dataclass for a page with this display name
Page(display_name) ==
    [display_name |-> display_name, has_webhook |-> FALSE,
     has_webhook_event_handler |-> FALSE, data |-> <<>>,
     naming_pattern_form |-> "", naming_pattern_webhook |-> "",
     naming_pattern_generic |-> ""]

\* d.get(key, None) is not None
Has(d, key) == key \in DOMAIN d

\* truth value of d.get(key, None) for a value that is a dict or a list
Truthy(d, key) == Has(d, key) /\ DOMAIN d[key] # {}

\* truth value of d.get(key, None) for a value that is a string
TruthyStr(d, key) == Has(d, key) /\ d[key] # ""

\* self.disable_map.get(name, True)
Enabled(name) ==
    IF name \in DOMAIN disable_map THEN disable_map[name] ELSE TRUE

(***************************************************************************)
(* The handlers below are functions of a context record                    *)
(*   c = [flow, stats, console, route_parameters, page, raised]            *)
(* holding the objects a handler mutates; raised names the exception that  *)
(* left the handler, "" when it returned.                                  *)
(***************************************************************************)
Ctx(f, s, con, rp, pg) ==
    [flow |-> f, stats |-> s, console |-> con, route_parameters |-> rp,
     page |-> pg, raised |-> ""]

Raise(c, exc) == [c EXCEPT !.raised = exc]

\* generic_logger: one diagnostic line on the console
generic_logger(c, rule, name, message) ==
    [c EXCEPT !.console = @ (+) SetToBag({<<rule, name, message>>})]

(***************************************************************************)
(* Regular expressions of the response message rules (rules.py),           *)
(* re.search with flags=re.IGNORECASE on a text without line breaks.       *)
(***************************************************************************)
UpperCase == "ABCDEFGHIJKLMNOPQRSTUVWXYZ"
LowerCase == "abcdefghijklmnopqrstuvwxyz"
Digits == "0123456789_"

LowerChar(ch) ==
    IF Contains(UpperCase, ch)
    THEN LET i == CHOOSE j \in 1..Len(UpperCase) : SubSeq(UpperCase, j, j) = ch
         IN  SubSeq(LowerCase, i, i)
    ELSE ch

RECURSIVE Lower(_)
Lower(s) ==
    IF Len(s) = 0 THEN s
    ELSE LowerChar(SubSeq(s, 1, 1)) \o Lower(SubSeq(s, 2, Len(s)))

\* \w
IsWordChar(ch) ==
    Contains(UpperCase, ch) \/ Contains(LowerCase, ch) \/ Contains(Digits, ch)

WhWords == {"what", "when", "where", "who", "why", "how"}

\* r'^(What|Where|When|Who|Why|How|Would) (.*) or (.*)\?$'
closed_choice_pattern(text) ==
    LET t == Lower(text) IN
    /\ EndsWith(t, "?")
    /\ \E w \in WhWords \cup {"would"} :
          /\ StartsWith(t, w \o " ")
          /\ \E i \in (Len(w) + 2)..(Len(t) - 4) : SubSeq(t, i, i + 3) = " or "

\* r'^(what|when|where|who|why|how)\b.*<last>$' for last = \? or \.
wh_pattern(text, last) ==
    LET t == Lower(text) IN
    /\ EndsWith(t, last)
    /\ \E w \in WhWords :
          /\ StartsWith(t, w)
          /\ Len(t) > Len(w)
          /\ ~IsWordChar(SubSeq(t, Len(w) + 1, Len(w) + 1))

(***************************************************************************)
(* Response message rules (rules.py, RulesDefinitions).  route is the      *)
(* Fulfillment: [trigger, text, fulfillment_type].                         *)
(***************************************************************************)
Issue(c, rule, message) ==
    generic_logger([c EXCEPT !.stats.total_issues = @ + 1],
                   rule, c.page.display_name, message)

\* closed-choice-alternative
closed_choice_alternative_parser(route, c) ==
    IF closed_choice_pattern(route.text)
    THEN Issue(c, "R001", route.trigger) ELSE c

\* wh-questions
wh_questions(route, c) ==
    IF wh_pattern(route.text, "?") /\ ~Contains(route.trigger, "event")
    THEN Issue(c, "R002", route.trigger) ELSE c

\* clarifying-questions
clarifying_questions(route, c) ==
    IF wh_pattern(route.text, ".") /\ Contains(route.trigger, "event")
    THEN Issue(c, "R003", route.trigger) ELSE c

\* missing-webhook-event-handlers
missing_webhook_event_handlers(c) ==
    LET c1 == [c EXCEPT !.stats.total_inspected = @ + 1] IN
    IF c1.page.has_webhook /\ ~c1.page.has_webhook_event_handler
    THEN Issue(c1, "R011", "") ELSE c1

(***************************************************************************)
(* Fulfillment handlers of resources/flows.py (class Flows).               *)
(***************************************************************************)
check_for_webhook(c, path) ==
    IF IsNone(path) THEN Raise(c, "TypeError")
    ELSE IF "webhook" \in DOMAIN path
         THEN [c EXCEPT !.page.has_webhook = TRUE] ELSE c

check_for_webhook_event_handlers(c, route) ==
    IF /\ c.page.has_webhook
       /\ ~c.page.has_webhook_event_handler
       /\ Contains(route.trigger, "webhook.error")
    THEN [c EXCEPT !.page.has_webhook_event_handler = TRUE] ELSE c

collect_transition_route_trigger(data) ==
    LET trigger ==
            IF Has(data, "intent") /\ Has(data, "condition")
            THEN "intent+condition"
            ELSE IF Has(data, "intent") THEN "intent"
            ELSE IF Has(data, "condition") THEN "condition"
            ELSE "[]"
    IN  IF verbose /\ TruthyStr(data, "intent")
        THEN trigger \o " : " \o data["intent"] ELSE trigger

get_trigger_info(fulfillment_type, data) ==
    IF fulfillment_type = "event"
    THEN "event : " \o GetStr(data, "event")
    ELSE "route : " \o collect_transition_route_trigger(data)

\* set_route_targets that wires only the routes with a triggerFulfillment
set_route_targets_fulfilled(c, data) ==
    IF ~Truthy(data, "triggerFulfillment") THEN c
    ELSE LET current_page == c.page.display_name
             g0 == c.flow.graph
             g1 == IF TruthyStr(data, "targetPage")
                   THEN add_used_node(
                            add_edge(g0, current_page, data["targetPage"]),
                            data["targetPage"])
                   ELSE g0
         IN  [c EXCEPT !.flow.graph = g1]

\* Flows.set_route_targets
set_route_targets(c, data) ==
    LET current_page == c.page.display_name
        g0 == c.flow.graph
        g1 == IF TruthyStr(data, "targetPage")
              THEN add_used_node(add_edge(g0, current_page, data["targetPage"]),
                                 data["targetPage"])
              ELSE g0
        g2 == IF TruthyStr(data, "targetFlow")
              THEN add_used_node(
                       add_edge(g1, current_page, "FLOW: " \o data["targetFlow"]),
                       "FLOW: " \o data["targetFlow"])
              ELSE g1
    IN  [c EXCEPT !.flow.graph = g2]

update_route_parameters(c, item) ==
    LET flow_name == c.flow.display_name
        page_name == c.page.display_name
        rp == c.route_parameters
        flow_data == IF flow_name \in DOMAIN rp THEN rp[flow_name] ELSE <<>>
        page_data ==
            IF page_name \in DOMAIN flow_data THEN flow_data[page_name] ELSE <<>>
    IN  [c EXCEPT !.route_parameters =
            IF page_data # <<>>
            THEN [rp EXCEPT ![flow_name][page_name] = Append(@, item)]
            ELSE IF DOMAIN flow_data # {}
            THEN [rp EXCEPT ![flow_name] = @ @@ (page_name :> <<item>>)]
            ELSE (flow_name :> (page_name :> <<item>>)) @@ rp]

lint_agent_responses(route, c) ==
    LET voice == agent_type = "voice"
        c1 == IF Enabled("closed-choice-alternative") /\ voice
              THEN closed_choice_alternative_parser(route, c) ELSE c
        c2 == IF Enabled("wh-questions") /\ voice
              THEN wh_questions(route, c1) ELSE c1
    IN  IF Enabled("clarifying-questions") /\ voice
        THEN clarifying_questions(route, c2) ELSE c2

\* for text in item['text']['text']
RECURSIVE lint_texts(_, _, _)
lint_texts(c, route, texts) ==
    IF texts = <<>> THEN c
    ELSE lint_texts(
             lint_agent_responses(
                 [route EXCEPT !.text = Head(texts)],
                 [c EXCEPT !.stats.total_inspected = @ + 1]),
             route, Tail(texts))

\* for item in fulfillment_data
RECURSIVE lint_items(_, _, _)
lint_items(c, route, items) ==
    IF items = <<>> THEN c
    ELSE LET item == Head(items)
             c1 == IF "text" \in DOMAIN item
                   THEN lint_texts(c, route, item["text"]["text"]) ELSE c
             c2 == IF "parameter" \in DOMAIN item
                   THEN update_route_parameters(c1, item) ELSE c1
         IN  lint_items(c2, route, Tail(items))

lint_fulfillment_type(c, route, path, key) ==
    IF c.raised # "" THEN c
    ELSE IF IsNone(path) THEN Raise(c, "AttributeError")
    ELSE IF Truthy(path, key) THEN lint_items(c, route, path[key])
    ELSE c

\* for route_data in page.events
RECURSIVE lint_event_handlers(_, _)
lint_event_handlers(c, events) ==
    IF events = <<>> \/ c.raised # "" THEN c
    ELSE LET data == Head(events)
             route == [fulfillment_type |-> "event",
                       trigger |-> get_trigger_info("event", data),
                       text |-> "None"]
             c1 == set_route_targets(c, data)
             path == Get(data, "triggerFulfillment")
             c2 == IF ~Truthy(data, "triggerFulfillment")
                      /\ ~TruthyStr(data, "event")
                   THEN c1
                   ELSE lint_fulfillment_type(
                            check_for_webhook_event_handlers(c1, route),
                            route, path, "messages")
         IN  lint_event_handlers(c2, Tail(events))

lint_events(c) ==
    IF c.raised # "" \/ ~Truthy(c.page.data, "eventHandlers") THEN c
    ELSE lint_event_handlers(c, c.page.data["eventHandlers"])

\* for route_data in page.routes
RECURSIVE lint_transition_routes(_, _)
lint_transition_routes(c, routes) ==
    IF routes = <<>> \/ c.raised # "" THEN c
    ELSE LET data == Head(routes)
             route == [fulfillment_type |-> "transition_route",
                       trigger |-> get_trigger_info("transition_route", data),
                       text |-> "None"]
             c1 == set_route_targets(c, data)
             path == Get(data, "triggerFulfillment")
             c2 == IF ~Truthy(data, "triggerFulfillment")
                   THEN c1
                   ELSE lint_fulfillment_type(
                            lint_fulfillment_type(
                                check_for_webhook(c1, path),
                                route, path, "messages"),
                            route, path, "setParameterActions")
         IN  lint_transition_routes(c2, Tail(routes))

lint_routes(c) ==
    IF c.raised # "" \/ ~Truthy(c.page.data, "transitionRoutes") THEN c
    ELSE lint_transition_routes(c, c.page.data["transitionRoutes"])

lint_entry(c) ==
    IF c.raised # "" \/ ~Truthy(c.page.data, "entryFulfillment") THEN c
    ELSE LET route == [fulfillment_type |-> "entry", trigger |-> "entry",
                       text |-> "None"]
             path == c.page.data["entryFulfillment"]
         IN  lint_fulfillment_type(check_for_webhook(c, path),
                                   route, path, "messages")

lint_webhooks(c) ==
    IF c.raised # "" THEN c
    ELSE IF Enabled("missing-webhook-event-handlers")
    THEN missing_webhook_event_handlers(c) ELSE c

(***************************************************************************)
(* File names (common.py, resources/flows.py).                             *)
(***************************************************************************)
\* Common.parse_filepath(in_path, 'page'): r".*\/pages\/([^\/]*)\." and
\* Common.parse_filepath(in_path, 'flow'): r".*\/flows\/([^\/]*)", for a
\* path whose last directory is pages/ (flows/)
parse_filepath(in_path, resource_type) ==
    LET slash == LastIndexOf(in_path, "/", Len(in_path))
        name == SubSeq(in_path, slash + 1, Len(in_path))
    IN  IF resource_type = "page"
        THEN SubSeq(name, 1, LastIndexOf(name, ".", Len(name)) - 1)
        ELSE name

\* Flows.clean_page_display_name
clean_page_display_name(display_name) ==
    Replace(Replace(Replace(Replace(Replace(display_name,
        "%28", "("), "%29", ")"), "%23", "#"), "%2f", "/"), "%3f", "?")

(***************************************************************************)
(* Page and Start Page linting (resources/flows.py).                       *)
(***************************************************************************)
\* lint_page without the registration of the page in flow.all_pages
lint_page_unregistered(c, page_file, data) ==
    LET display_name ==
            clean_page_display_name(parse_filepath(page_file, "page"))
        c1 == [c EXCEPT
                 !.page = [Page(display_name) EXCEPT !.data = data],
                 !.flow.graph = add_node(@, display_name)]
    IN  lint_webhooks(lint_events(lint_routes(lint_entry(c1))))

\* Flows.lint_page, for the page file page_file holding the JSON data
lint_page(c, page_file, data) ==
    LET display_name ==
            clean_page_display_name(parse_filepath(page_file, "page"))
        c1 == [c EXCEPT
                 !.page = [Page(display_name) EXCEPT !.data = data],
                 !.flow.graph = add_node(@, display_name),
                 !.flow.all_pages = @ \cup {display_name}]
    IN  lint_webhooks(lint_events(lint_routes(lint_entry(c1))))

\* Flows.lint_start_page, for the flow file holding the JSON data
lint_start_page(c, data) ==
    LET c1 == [c EXCEPT
                 !.page = [Page("Start Page") EXCEPT !.data = data],
                 !.flow.graph = add_node(@, "Start Page")]
    IN  lint_webhooks(lint_events(lint_routes(c1)))

(***************************************************************************)
(* Flow graph analyzer (resources/flows.py).                               *)
(***************************************************************************)
\* Flows.recurse_edges; the result is [dangling, visited]
RECURSIVE recurse_edges(_, _, _, _)
RECURSIVE recurse_inner_pages(_, _, _, _)
recurse_inner_pages(edges, inner_pages, dangling, visited) ==
    IF inner_pages = <<>> THEN [dangling |-> dangling, visited |-> visited]
    ELSE LET inner_page == Head(inner_pages)
             r == IF inner_page \notin visited
                  THEN recurse_edges(edges, inner_page, dangling,
                                     visited \cup {inner_page})
                  ELSE [dangling |-> dangling, visited |-> visited]
         IN  recurse_inner_pages(edges, Tail(inner_pages),
                                 r.dangling, r.visited)

\* recurse_edges with the recursion into the inner pages left out
recurse_edges_no_descent(edges, pg, dangling, visited) ==
    IF pg \in DOMAIN edges
    THEN [dangling |-> dangling, visited |-> visited \cup Range(edges[pg])]
    ELSE [dangling |-> dangling \cup {pg}, visited |-> visited]

recurse_edges(edges, pg, dangling, visited) ==
    IF pg \in DOMAIN edges
    THEN recurse_inner_pages(edges, edges[pg], dangling, visited)
    ELSE [dangling |-> dangling \cup {pg}, visited |-> visited]

\* find_unused_pages comparing with the graph's node set, not its used set
find_unused_pages_nodes(f) ==
    LET all_pages == f.all_pages \ Range(special_pages)
        prelim_unused == all_pages \ f.graph.nodes
    IN  [f EXCEPT
           !.all_pages = all_pages,
           !.unused_pages =
               {p \in prelim_unused : p \notin DOMAIN f.graph.edges},
           !.orphaned_pages =
               @ \cup {p \in prelim_unused : p \in DOMAIN f.graph.edges}]

\* Flows.find_unused_pages
find_unused_pages(f) ==
    LET all_pages == f.all_pages \ Range(special_pages)
        prelim_unused == all_pages \ f.graph.used_nodes
    IN  [f EXCEPT
           !.all_pages = all_pages,
           !.unused_pages =
               {p \in prelim_unused : p \notin DOMAIN f.graph.edges},
           !.orphaned_pages =
               @ \cup {p \in prelim_unused : p \in DOMAIN f.graph.edges}]

\* find_dangling_pages without the clean-up of special pages and flow tags
find_dangling_pages_no_cleanup(f) ==
    LET r == recurse_edges(f.graph.edges, "Start Page",
                           f.dangling_pages, f.active_pages)
    IN  [f EXCEPT !.active_pages = r.visited, !.dangling_pages = r.dangling]

\* Flows.find_dangling_pages
find_dangling_pages(f) ==
    LET r == recurse_edges(f.graph.edges, "Start Page",
                           f.dangling_pages, f.active_pages)
        dangling == r.dangling \ Range(special_pages)
    IN  [f EXCEPT
           !.active_pages = r.visited,
           !.dangling_pages = {p \in dangling : ~Contains(p, "FLOW")}]

\* find_orphaned_pages taking the union, not the symmetric difference
find_orphaned_pages_union(f) ==
    [f EXCEPT !.orphaned_pages =
        @ \cup f.active_pages \cup f.graph.used_nodes]

\* Flows.find_orphaned_pages
find_orphaned_pages(f) ==
    LET filtered_set == (f.active_pages \ f.graph.used_nodes)
                        \cup (f.graph.used_nodes \ f.active_pages)
    IN  [f EXCEPT !.orphaned_pages = @ \cup filtered_set]

(***************************************************************************)
(* Graph rules (rules.py, RulesDefinitions) and Flows.lint_graph.          *)
(***************************************************************************)
\* one diagnostic, one inspection and one issue for each page of the set
report_pages(c, rule, pages) ==
    [c EXCEPT
       !.stats.total_inspected = @ + Cardinality(pages),
       !.stats.total_issues = @ + Cardinality(pages),
       !.console = @ (+) SetToBag({<<rule, p, "">> : p \in pages})]

\* unused-pages
unused_pages(c) == report_pages(c, "R012", c.flow.unused_pages)

\* dangling-pages
dangling_pages(c) == report_pages(c, "R013", c.flow.dangling_pages)

\* orphaned-pages: the rule lint_graph calls for flow.orphaned_pages
orphaned_pages(c) == report_pages(c, "R014", c.flow.orphaned_pages)

lint_graph(c) ==
    LET c1 == IF Enabled("unused-pages") THEN unused_pages(c) ELSE c
        c2 == IF Enabled("dangling-pages") THEN dangling_pages(c1) ELSE c1
    IN  IF Enabled("orphaned-pages") THEN orphaned_pages(c2) ELSE c2

(***************************************************************************)
(* Rating.  A rating is the exact fraction [num, den], den > 0; "raised"   *)
(* records the exception of a call that did not return.                    *)
(***************************************************************************)
Fraction(num, den) == [num |-> num, den |-> den, raised |-> ""]

\* Common.calculate_rating (common.py)
calculate_rating(total_issues, total_inspected) ==
    IF total_inspected > 0
    THEN Fraction(10 * (total_inspected - total_issues), total_inspected)
    ELSE Fraction(10, 1)

\* CxLint.calculate_rating (cxlint.py)
CxLint_calculate_rating(total_issues, total_inspected) ==
    IF total_inspected = 0
    THEN [num |-> 0, den |-> 1, raised |-> "ZeroDivisionError"]
    ELSE Fraction(10 * (total_inspected - total_issues), total_inspected)

(***************************************************************************)
(* The page linter of resources/pages.py (Pages), resources/routes.py      *)
(* (Fulfillments) and rules/pages.py (PageRules).  Fulfillments.lint_entry,*)
(* lint_routes, lint_events, lint_fulfillment_type, lint_agent_responses,  *)
(* set_route_targets and check_for_webhook* have the same code as their    *)
(* namesakes in resources/flows.py above.                                  *)
(***************************************************************************)
\* Common.clean_display_name: the replacements in the order of the dict
\* (the two curly quotation marks are written by their code points)
display_name_patterns ==
    << <<"%22", "\"">>, <<"%23", "#">>, <<"%24", "$">>, <<"%26", "&">>,
       <<"%27", "'">>, <<"%28", "(">>, <<"%29", ")">>, <<"%2c", ",">>,
       <<"%2f", "/">>, <<"%3a", ":">>, <<"%3c", "<">>, <<"%3d", "=">>,
       <<"%3e", ">">>, <<"%3f", "?">>, <<"%5b", "[">>, <<"%5d", "]">>,
       <<"%e2%80%9c", "U+201C">>, <<"%e2%80%9d", "U+201D">> >>

RECURSIVE replace_patterns(_, _)
replace_patterns(display_name, patterns) ==
    IF patterns = <<>> THEN display_name
    ELSE replace_patterns(
             Replace(display_name, Head(patterns)[1], Head(patterns)[2]),
             Tail(patterns))

clean_display_name(display_name) ==
    replace_patterns(display_name, display_name_patterns)

\* Fulfillments.set_route_group_targets
RECURSIVE set_route_group_targets(_, _)
set_route_group_targets(c, route_groups) ==
    IF route_groups = <<>> THEN c
    ELSE set_route_group_targets(
             [c EXCEPT !.flow.graph =
                 add_used_node(
                     add_edge(@, c.page.display_name, Head(route_groups)),
                     Head(route_groups))],
             Tail(route_groups))

\* Fulfillments.lint_reprompt_handlers: for handler in fp.reprompt_handlers
RECURSIVE lint_reprompt_handlers(_, _, _)
lint_reprompt_handlers(c, parameter, handlers) ==
    IF handlers = <<>> \/ c.raised # "" THEN c
    ELSE LET data == Head(handlers)
             route == [fulfillment_type |-> "reprompt_handler",
                       trigger |-> parameter \o " : event : "
                                       \o GetStr(data, "event"),
                       text |-> "None"]
             c1 == set_route_targets(c, data)
             path == Get(data, "triggerFulfillment")
             c2 == IF ~Truthy(data, "triggerFulfillment")
                      /\ ~TruthyStr(data, "event")
                   THEN c1
                   ELSE lint_fulfillment_type(check_for_webhook(c1, path),
                                              route, path, "messages")
         IN  lint_reprompt_handlers(c2, parameter, Tail(handlers))

\* Pages.lint_form: for param in parameters, get_form_parameter_data and
\* lint_reprompt_handlers
RECURSIVE lint_parameters(_, _)
lint_parameters(c, parameters) ==
    IF parameters = <<>> \/ c.raised # "" THEN c
    ELSE LET param == Head(parameters)
             reprompt_handlers ==
                 IF Truthy(param, "fillBehavior")
                    /\ Truthy(param["fillBehavior"], "repromptEventHandlers")
                 THEN param["fillBehavior"]["repromptEventHandlers"]
                 ELSE <<>>
         IN  lint_parameters(
                 lint_reprompt_handlers(c, GetStr(param, "displayName"),
                                        reprompt_handlers),
                 Tail(parameters))

\* Pages.lint_form: page.form is None for a page without a form
lint_form(c) ==
    IF c.raised # "" THEN c
    ELSE IF ~Has(c.page.data, "form") THEN Raise(c, "AttributeError")
    ELSE IF Truthy(c.page.data["form"], "parameters")
    THEN lint_parameters(c, c.page.data["form"]["parameters"])
    ELSE c

\* re.search(pattern, name) for a pattern without metacharacters
re_search(pattern, name) == Contains(name, pattern)

\* PageRules.page_naming_conventions and check_and_log_naming; an unset
\* naming pattern is ""
page_naming_conventions(c) ==
    LET pg == c.page
        pattern ==
            IF Truthy(pg.data, "form") /\ pg.naming_pattern_form # ""
            THEN pg.naming_pattern_form
            ELSE IF pg.has_webhook /\ pg.naming_pattern_webhook # ""
            THEN pg.naming_pattern_webhook
            ELSE pg.naming_pattern_generic
        c1 == [c EXCEPT !.stats.total_inspected = @ + 1]
    IN  IF pg.display_name = "Start Page" \/ pattern = "" THEN c
        ELSE IF re_search(pattern, pg.display_name) THEN c1
        ELSE Issue(c1, "R015", pattern)

\* PageRules.page_display_name_extra_whitespaces
page_display_name_extra_whitespaces(c) ==
    LET c1 == [c EXCEPT !.stats.total_inspected = @ + 1]
        name == c.page.display_name
    IN  IF StartsWith(name, " ") \/ EndsWith(name, " ")
           \/ Contains(name, "  ")
        THEN Issue(c1, "R016", "") ELSE c1

\* PageRules._gather_params_and_handlers and the loop `for param in params`
\* of page_form_no_match_handler / page_form_no_input_handler
RECURSIVE check_param_handlers(_, _, _)
check_param_handlers(c, rule, parameters) ==
    IF parameters = <<>> \/ c.raised # "" THEN c
    ELSE LET param == Head(parameters)
             c1 == IF ~Truthy(param, "fillBehavior")
                   THEN Raise(c, "UnboundLocalError")
                   ELSE IF ~Truthy(param["fillBehavior"],
                                   "repromptEventHandlers")
                   THEN Issue(c, rule, ": " \o GetStr(param, "displayName"))
                   ELSE c
         IN  check_param_handlers(c1, rule, Tail(parameters))

\* one form rule: gather every parameter, then report the unhandled ones
page_form_handler(c, rule) ==
    LET c1 == [c EXCEPT !.stats.total_inspected = @ + 1]
        form == Get(c.page.data, "form")
    IN  IF ~Truthy(c.page.data, "form") THEN c1
        ELSE IF ~Has(form, "parameters") THEN Raise(c1, "KeyError")
        ELSE IF \E i \in DOMAIN form["parameters"] :
                    ~Truthy(form["parameters"][i], "fillBehavior")
        THEN Raise(c1, "UnboundLocalError")
        ELSE check_param_handlers(c1, rule, form["parameters"])

\* page-form-no-match-handler
page_form_no_match_handler(c) == page_form_handler(c, "R017")

\* page-form-no-input-handler
page_form_no_input_handler(c) == page_form_handler(c, "R018")

\* PageRules.run_page_rules
run_page_rules(c) ==
    LET c1 == IF Enabled("naming-conventions")
              THEN page_naming_conventions(c) ELSE c
        c2 == IF Enabled("missing-webhook-event-handlers")
              THEN missing_webhook_event_handlers(c1) ELSE c1
        c3 == IF Enabled("extra-display-name-whitespace")
              THEN page_display_name_extra_whitespaces(c2) ELSE c2
        c4 == IF Enabled("page-form-no-match-handler") /\ c3.raised = ""
              THEN page_form_no_match_handler(c3) ELSE c3
    IN  IF c.raised # "" THEN c
        ELSE IF Enabled("page-form-no-input-handler") /\ c4.raised = ""
        THEN page_form_no_input_handler(c4) ELSE c4

\* Pages.lint_page, for the page file page_file holding the JSON data
Pages_lint_page(c, page_file, data) ==
    LET display_name == clean_display_name(parse_filepath(page_file, "page"))
        c1 == [c EXCEPT
                 !.page = [Page(display_name) EXCEPT !.data = data],
                 !.flow.graph = add_node(@, display_name),
                 !.flow.all_pages = @ \cup {display_name}]
        c2 == lint_form(lint_events(lint_routes(lint_entry(c1))))
        c3 == IF c2.raised = "" /\ Truthy(data, "transitionRouteGroups")
              THEN set_route_group_targets(c2, data["transitionRouteGroups"])
              ELSE c2
    IN  run_page_rules(c3)

\* check_flow_filters with the include list tested after the exclude list
check_flow_filters_include_wins(f) ==
    LET f1 == IF exclude_filter # "" /\ Contains(exclude_filter, f.display_name)
              THEN [f EXCEPT !.filtered = TRUE] ELSE f
    IN  IF include_filter # ""
        THEN [f1 EXCEPT !.filtered =
                        ~Contains(include_filter, f1.display_name)]
        ELSE f1

(***************************************************************************)
(* Flows.check_flow_filters: an empty include pattern and an exclude       *)
(* pattern of None are both false.                                         *)
(***************************************************************************)
check_flow_filters(f) ==
    LET f1 == IF include_filter # ""
              THEN [f EXCEPT !.filtered =
                            ~Contains(include_filter, f.display_name)]
              ELSE f
    IN  IF exclude_filter # "" /\ Contains(exclude_filter, f1.display_name)
        THEN [f1 EXCEPT !.filtered = TRUE] ELSE f1

(***************************************************************************)
(* The flows pass, Flows.lint_flows_directory, one step per call made by   *)
(* lint_flows_directory and lint_flow.  pc names the call to come.         *)
(***************************************************************************)
\* the objects as a handler left them; an exception ends the pass
Commit(c, next_pc) ==
    /\ flow' = c.flow
    /\ stats' = c.stats
    /\ console' = c.console
    /\ route_parameters' = c.route_parameters
    /\ page' = c.page
    /\ pc' = IF c.raised # "" THEN "raised" ELSE next_pc

Current == Ctx(flow, stats, console, route_parameters, page)

\* after a flow: the next flow, or the rating
AfterFlow(paths) == IF paths = <<>> THEN "calculate_rating" ELSE "lint_flow"

\* lint_flows_directory that goes on counting in the stats it finds
LintFlowsDirectory_keep_stats ==
    /\ pc = "lint_flows_directory"
    /\ stats' = [stats EXCEPT !.total_flows = Len(flow_paths)]
    /\ pc' = AfterFlow(flow_paths)
    /\ UNCHANGED <<flow_paths, pages_dir, include_filter, exclude_filter,
                   agent_type, disable_map, verbose, page_paths, flow,
                   console, route_parameters, page, rating, args>>
    /\ UNCHANGED extVars

\* lint_flows_directory up to the loop: stats = LintStats(), the flow paths
LintFlowsDirectory ==
    /\ pc = "lint_flows_directory"
    /\ stats' = [LintStats EXCEPT !.total_flows = Len(flow_paths)]
    /\ pc' = AfterFlow(flow_paths)
    /\ UNCHANGED <<flow_paths, pages_dir, include_filter, exclude_filter,
                   agent_type, disable_map, verbose, page_paths, flow,
                   console, route_parameters, page, rating, args>>
    /\ UNCHANGED extVars

\* one iteration of the loop up to the pages directory: Flow(), Graph(),
\* lint_flow's filter check and lint_start_page on the flow file's data
LintFlow(data) ==
    /\ pc = "lint_flow"
    /\ flow_paths # <<>>
    /\ LET dir_path == Head(flow_paths)
           f == check_flow_filters(
                    [Flow EXCEPT
                       !.display_name = parse_filepath(dir_path, "flow")])
           c == lint_start_page(
                    Ctx(f, stats, console, route_parameters, page), data)
       IN  /\ flow_paths' = Tail(flow_paths)
           /\ IF f.filtered
              THEN /\ flow' = f
                   /\ pc' = AfterFlow(flow_paths')
                   /\ page_paths' = {}
                   /\ UNCHANGED <<stats, console, route_parameters, page>>
              ELSE /\ page_paths' =
                         {dir_path \o "/pages/" \o file :
                             file \in pages_dir[dir_path]}
                   /\ Commit(c, IF page_paths' = {}
                                THEN "find_unused_pages"
                                ELSE "lint_pages_directory")
    /\ UNCHANGED <<pages_dir, include_filter, exclude_filter, agent_type,
                   disable_map, verbose, rating, args>>
    /\ UNCHANGED extVars

\* lint_pages_directory that returns after the first page file of the listing
LintPagesDirectory_first_page(page_file, data) ==
    /\ pc = "lint_pages_directory"
    /\ page_file \in page_paths
    /\ page_paths' = page_paths \ {page_file}
    /\ Commit(lint_page([Current EXCEPT !.stats.total_pages = @ + 1],
                        page_file, data),
              "find_unused_pages")
    /\ UNCHANGED <<flow_paths, pages_dir, include_filter, exclude_filter,
                   agent_type, disable_map, verbose, rating, args>>
    /\ UNCHANGED extVars

\* one iteration of Flows.lint_pages_directory: total_pages += 1, lint_page
LintPagesDirectory(page_file, data) ==
    /\ pc = "lint_pages_directory"
    /\ page_file \in page_paths
    /\ page_paths' = page_paths \ {page_file}
    /\ Commit(lint_page([Current EXCEPT !.stats.total_pages = @ + 1],
                        page_file, data),
              IF page_paths' = {} THEN "find_unused_pages"
              ELSE "lint_pages_directory")
    /\ UNCHANGED <<flow_paths, pages_dir, include_filter, exclude_filter,
                   agent_type, disable_map, verbose, rating, args>>
    /\ UNCHANGED extVars

FindUnusedPages ==
    /\ pc = "find_unused_pages"
    /\ flow' = find_unused_pages(flow)
    /\ pc' = "find_dangling_pages"
    /\ UNCHANGED <<flow_paths, pages_dir, include_filter, exclude_filter,
                   agent_type, disable_map, verbose, page_paths, stats,
                   console, route_parameters, page, rating, args>>
    /\ UNCHANGED extVars

FindDanglingPages ==
    /\ pc = "find_dangling_pages"
    /\ flow' = find_dangling_pages(flow)
    /\ pc' = "find_orphaned_pages"
    /\ UNCHANGED <<flow_paths, pages_dir, include_filter, exclude_filter,
                   agent_type, disable_map, verbose, page_paths, stats,
                   console, route_parameters, page, rating, args>>
    /\ UNCHANGED extVars

\* find_orphaned_pages that assigns the difference to orphaned_pages
FindOrphanedPages_assign ==
    /\ pc = "find_orphaned_pages"
    /\ flow' = [flow EXCEPT !.orphaned_pages =
                    (flow.active_pages \ flow.graph.used_nodes)
                    \cup (flow.graph.used_nodes \ flow.active_pages)]
    /\ pc' = "lint_graph"
    /\ UNCHANGED <<flow_paths, pages_dir, include_filter, exclude_filter,
                   agent_type, disable_map, verbose, page_paths, stats,
                   console, route_parameters, page, rating, args>>
    /\ UNCHANGED extVars

FindOrphanedPages ==
    /\ pc = "find_orphaned_pages"
    /\ flow' = find_orphaned_pages(flow)
    /\ pc' = "lint_graph"
    /\ UNCHANGED <<flow_paths, pages_dir, include_filter, exclude_filter,
                   agent_type, disable_map, verbose, page_paths, stats,
                   console, route_parameters, page, rating, args>>
    /\ UNCHANGED extVars

LintGraph ==
    /\ pc = "lint_graph"
    /\ Commit(lint_graph(Current), AfterFlow(flow_paths))
    /\ UNCHANGED <<flow_paths, pages_dir, include_filter, exclude_filter,
                   agent_type, disable_map, verbose, page_paths, rating,
                   args>>
    /\ UNCHANGED extVars

\* the end of lint_flows_directory: the rating of the pass
CalculateRating ==
    /\ pc = "calculate_rating"
    /\ rating' = calculate_rating(stats.total_issues, stats.total_inspected)
    /\ pc' = "done"
    /\ UNCHANGED <<flow_paths, pages_dir, include_filter, exclude_filter,
                   agent_type, disable_map, verbose, page_paths, flow, stats,
                   console, route_parameters, page, args>>
    /\ UNCHANGED extVars

\* no intents pass, no test cases pass and no earlier run
NoRun ==
    [done |-> FALSE, stats |-> LintStats, console |-> EmptyBag,
     rating |-> Fraction(10, 1)]

\* no recurse_edges call is running
NoTraversal ==
    [edges |-> <<>>, stack |-> <<>>, dangling |-> {}, visited |-> {},
     entered |-> <<>>]

InitIntentsIdle ==
    /\ intents_dir = <<>>
    /\ intent_paths = <<>>
    /\ intent = Intent
    /\ lang_code_filter = <<>>

InitTestCasesIdle ==
    /\ test_case_paths = <<>>
    /\ tc = TestCase
    /\ tag_filter = <<>>
    /\ display_name_filter = ""

(***************************************************************************)
(* Inputs of the flows pass: the agent export and its JSON files.          *)
(***************************************************************************)
\* lists of at most n elements of S
SeqUpTo(S, n) == UNION {[1..k -> S] : k \in 0..n}

FlowDirs == {"agent/flows/Main"}
PageFiles == {"PageA.json", "OVERFLOW.json", "Page%23B.json"}
TargetPages == {"PageA", "OVERFLOW", "End Session", "Start Page"}
TargetFlows == {"Other"}

\* the node names set_route_targets makes of the target flows
FlowTags == {"FLOW: " \o f : f \in TargetFlows}

Statement == "What is your name."

TextMessage(text) == [text |-> [text |-> <<text>>]]

RouteData ==
    {[intent |-> "order", targetPage |-> t] : t \in TargetPages}
    \cup {[intent |-> "order", targetFlow |-> f] : f \in TargetFlows}

\* an event handler with a fulfillment and one with a target page only
EventData ==
    {[event |-> "sys.no-match-default", targetPage |-> "End Session",
      triggerFulfillment |-> [messages |-> <<TextMessage(Statement)>>]],
     [event |-> "sys.no-input-default", targetPage |-> "End Session"]}

FlowData ==
    {[transitionRoutes |-> r] : r \in SeqUpTo(RouteData, MaxRoutes)}
    \cup {[eventHandlers |-> <<e>>] : e \in EventData}

PageData == FlowData

Trees ==
    {t \in [FlowDirs -> SUBSET PageFiles] :
        \A d \in FlowDirs : Cardinality(t[d]) <= MaxPageFiles}

\* the include and exclude lists of the FLOWS section of the configuration
FlowFilters == {<<"", "">>, <<"Main", "Main">>, <<"Other", "">>}

\* Flows.__init__ on the configuration and the agent export
InitFlows ==
    /\ pc = "lint_flows_directory"
    /\ flow_paths \in {<<d>> : d \in FlowDirs}
    /\ pages_dir \in Trees
    /\ \E f \in FlowFilters : include_filter = f[1] /\ exclude_filter = f[2]
    /\ agent_type = "voice"
    /\ disable_map = <<>>
    /\ verbose = FALSE
    /\ page_paths = {}
    /\ flow = Flow
    /\ stats = LintStats
    /\ console = EmptyBag
    /\ route_parameters = <<>>
    /\ page = Page("None")
    /\ rating = Fraction(10, 1)
    /\ args = <<0, 0>>
    /\ InitIntentsIdle
    /\ InitTestCasesIdle
    /\ first_run = NoRun
    /\ dfs = NoTraversal

Init == InitFlows /\ files = <<>>

Next ==
    \/ LintFlowsDirectory
    \/ \E data \in FlowData : LintFlow(data)
    \/ \E page_file \in page_paths, data \in PageData :
          LintPagesDirectory(page_file, data)
    \/ FindUnusedPages
    \/ FindDanglingPages
    \/ FindOrphanedPages
    \/ LintGraph
    \/ CalculateRating

Spec == Init /\ [][Next]_vars

(***************************************************************************)
(* The flows pass with the page linter of resources/pages.py: the pages    *)
(* directory is linted by Pages.lint_pages_directory / Pages.lint_page.    *)
(***************************************************************************)
\* one iteration of Pages.lint_pages_directory: total_pages += 1, lint_page
PagesLintPagesDirectory(page_file, data) ==
    /\ pc = "lint_pages_directory"
    /\ page_file \in page_paths
    /\ page_paths' = page_paths \ {page_file}
    /\ Commit(Pages_lint_page([Current EXCEPT !.stats.total_pages = @ + 1],
                              page_file, data),
              IF page_paths' = {} THEN "find_unused_pages"
              ELSE "lint_pages_directory")
    /\ UNCHANGED <<flow_paths, pages_dir, include_filter, exclude_filter,
                   agent_type, disable_map, verbose, rating, args>>
    /\ UNCHANGED extVars

\* a JSON key that is absent, or present with a value of S
Opt(key, S) == {<<>>} \cup {key :> v : v \in S}

ChoiceQuestion == "What is it, a or b?"

\* a fulfillment that calls a webhook
Webhook == [webhook |-> "lookup"]

PagesRouteData ==
    {[intent |-> "order", targetPage |-> "End Session",
      triggerFulfillment |-> Webhook],
     [intent |-> "order",
      triggerFulfillment |-> [messages |-> <<TextMessage(ChoiceQuestion)>>]]}

PagesEventData ==
    {[event |-> "webhook.error",
      triggerFulfillment |-> [messages |-> <<TextMessage(Statement)>>]],
     [event |-> "sys.no-match-default", triggerFulfillment |-> Webhook]}

ParamData ==
    {[displayName |-> "size",
      fillBehavior |-> [initialPromptFulfillment |-> <<>>]],
     [displayName |-> "size",
      fillBehavior |->
          [repromptEventHandlers |->
              <<[event |-> "sys.no-match-1",
                 triggerFulfillment |-> Webhook]>>]]}

PagesPageData ==
    {e @@ r @@ ev @@ f :
        e \in Opt("entryFulfillment", {Webhook}),
        r \in Opt("transitionRoutes",
                  SeqUpTo(PagesRouteData, MaxRoutes) \ {<<>>}),
        ev \in Opt("eventHandlers",
                   SeqUpTo(PagesEventData, MaxEvents) \ {<<>>}),
        f \in Opt("form", {[parameters |-> ps] :
                              ps \in SeqUpTo(ParamData, MaxParams)})}
    \cup {[form |-> <<>>, transitionRouteGroups |-> <<"Support">>]}

PagesFlowData ==
    {[transitionRoutes |-> <<[intent |-> "order", targetPage |-> "Page:A"]>>],
     [transitionRoutes |->
         <<[intent |-> "order", targetPage |-> "Page:A",
            triggerFulfillment |->
                [webhook |-> "lookup",
                 messages |-> <<TextMessage(ChoiceQuestion)>>]]>>]}

PagesTrees == [FlowDirs -> {{}, {"Page%3aA.json"}}]

InitPages ==
    /\ pc = "lint_flows_directory"
    /\ flow_paths \in {<<d>> : d \in FlowDirs}
    /\ pages_dir \in PagesTrees
    /\ include_filter = ""
    /\ exclude_filter = ""
    /\ agent_type = "voice"
    /\ disable_map = <<>>
    /\ verbose = FALSE
    /\ page_paths = {}
    /\ flow = Flow
    /\ stats = LintStats
    /\ console = EmptyBag
    /\ route_parameters = <<>>
    /\ page = Page("None")
    /\ rating = Fraction(10, 1)
    /\ args = <<0, 0>>
    /\ InitIntentsIdle
    /\ InitTestCasesIdle
    /\ first_run = NoRun
    /\ dfs = NoTraversal
    /\ files = <<>>

NextPages ==
    \/ LintFlowsDirectory
    \/ \E data \in PagesFlowData : LintFlow(data)
    \/ \E page_file \in page_paths, data \in PagesPageData :
          PagesLintPagesDirectory(page_file, data)
    \/ FindUnusedPages
    \/ FindDanglingPages
    \/ FindOrphanedPages
    \/ LintGraph
    \/ CalculateRating

SpecPages == InitPages /\ [][NextPages]_vars

(***************************************************************************)
(* calculate_rating on its own: both implementations applied to every      *)
(* pair of counters up to MaxCount.                                        *)
(***************************************************************************)
CommonCalculateRating ==
    /\ pc = "rate"
    /\ rating' = calculate_rating(args[1], args[2])
    /\ pc' = "rated_common"
    /\ UNCHANGED <<flow_paths, pages_dir, include_filter, exclude_filter,
                   agent_type, disable_map, verbose, page_paths, flow, stats,
                   console, route_parameters, page, args>>
    /\ UNCHANGED extVars

CxLintCalculateRating ==
    /\ pc = "rate"
    /\ rating' = CxLint_calculate_rating(args[1], args[2])
    /\ pc' = "rated_cxlint"
    /\ UNCHANGED <<flow_paths, pages_dir, include_filter, exclude_filter,
                   agent_type, disable_map, verbose, page_paths, flow, stats,
                   console, route_parameters, page, args>>
    /\ UNCHANGED extVars

InitRating ==
    /\ pc = "rate"
    /\ args \in (0..MaxCount) \X (0..MaxCount)
    /\ flow_paths = <<>>
    /\ pages_dir = <<>>
    /\ include_filter = ""
    /\ exclude_filter = ""
    /\ agent_type = "voice"
    /\ disable_map = <<>>
    /\ verbose = FALSE
    /\ page_paths = {}
    /\ flow = Flow
    /\ stats = LintStats
    /\ console = EmptyBag
    /\ route_parameters = <<>>
    /\ page = Page("None")
    /\ rating = Fraction(10, 1)
    /\ InitIntentsIdle
    /\ InitTestCasesIdle
    /\ first_run = NoRun
    /\ dfs = NoTraversal
    /\ files = <<>>

NextRating == CommonCalculateRating \/ CxLintCalculateRating

SpecRating == InitRating /\ [][NextRating]_vars

(***************************************************************************)
(* The intents pass (resources/intents.py, rules/intents.py).  An intent   *)
(* directory is [metadata |-> the metadata file exists] with, when the     *)
(* trainingPhrases directory exists, trainingPhrases |-> the JSON data of  *)
(* each language file.  A key holding None is an absent key.  The handlers *)
(* are functions of c = [intent, stats, console, raised].                  *)
(***************************************************************************)
IntentCtx(it, s, con) ==
    [intent |-> it, stats |-> s, console |-> con, raised |-> ""]

\* the orders in which os.listdir may list the members of S
Orders(S) == {q \in [1..Cardinality(S) -> S] : Range(q) = S}

\* Intents.check_intent_filters (self.include_filter, self.exclude_filter)
check_intent_filters(it) ==
    LET i1 == IF include_filter # ""
              THEN [it EXCEPT !.filtered =
                             ~Contains(it.display_name, include_filter)]
              ELSE it
    IN  IF exclude_filter # "" /\ Contains(i1.display_name, exclude_filter)
        THEN [i1 EXCEPT !.filtered = TRUE] ELSE i1

\* check_if_head_intent that never finds a head intent
check_if_head_intent_never(it) == FALSE

\* IntentRules.check_if_head_intent
check_if_head_intent(it) == Contains(it.display_name, "head")

\* IntentRules.intent_missing_metadata
intent_missing_metadata(c) ==
    generic_logger([c EXCEPT !.stats.total_inspected = @ + 1,
                             !.stats.total_issues = @ + 1],
                   "R010", c.intent.display_name, "")

\* IntentRules.missing_training_phrases
missing_training_phrases(c) ==
    IF Enabled("intent-missing-tps")
    THEN generic_logger([c EXCEPT !.stats.total_inspected = @ + 1,
                                  !.stats.total_issues = @ + 1],
                        "R004", c.intent.display_name, ": {}")
    ELSE c

\* IntentRules.min_tps_head_intent
min_tps_head_intent(c, lang_code) ==
    LET entry == c.intent.training_phrases[lang_code]
        n_tps == Len(entry["tps"])
        c1 == [c EXCEPT !.stats.total_inspected = @ + 1]
        hid == check_if_head_intent(c.intent)
        log(required) ==
            generic_logger([c1 EXCEPT !.stats.total_issues = @ + 1],
                           "R005", c.intent.display_name,
                           ": " \o lang_code \o " : (" \o ToString(n_tps)
                               \o " / " \o ToString(required) \o ")")
    IN  IF ~Has(entry, "tps") THEN Raise(c, "TypeError")
        ELSE IF hid /\ n_tps < 50 THEN log(50)
        ELSE IF n_tps < 20 THEN log(20)
        ELSE c1

\* IntentRules.run_training_phrase_rules
run_training_phrase_rules(c, lang_code) ==
    IF Enabled("intent-min-tps") THEN min_tps_head_intent(c, lang_code)
    ELSE c

\* Common.get_file_based_on_lang_code_filter for an Intent; "" is None
get_file_based_on_lang_code_filter(it, lang_code) ==
    IF lang_code_filter # <<>> /\ lang_code \notin Range(lang_code_filter)
    THEN ""
    ELSE it.training_phrases[lang_code]["file_path"]

\* Intents.lint_language_codes, the language codes in the order of the dict
RECURSIVE lint_language_codes(_, _)
lint_language_codes(c, lang_codes) ==
    IF lang_codes = <<>> \/ c.raised # "" THEN c
    ELSE LET lang_code == Head(lang_codes)
             tp_file == get_file_based_on_lang_code_filter(c.intent,
                                                           lang_code)
             data == intents_dir[c.intent.display_name]
                         ["trainingPhrases"][lang_code]
             c1 == IF Has(data, "trainingPhrases")
                   THEN [c EXCEPT !.intent.training_phrases[lang_code] =
                             @ @@ [tps |-> data["trainingPhrases"]]]
                   ELSE c
         IN  lint_language_codes(
                 IF tp_file # "" THEN run_training_phrase_rules(c1, lang_code)
                 ELSE c,
                 Tail(lang_codes))

\* Intents.build_lang_code_paths, the language files as os.listdir lists them
build_lang_code_paths(it, lang_codes) ==
    [it EXCEPT !.training_phrases =
        [lang_code \in Range(lang_codes) |->
            [file_path |-> it.dir_path \o "/trainingPhrases/" \o lang_code
                               \o ".json"]]]

\* Intents.lint_training_phrases
lint_training_phrases(c, lang_codes) ==
    IF Has(intents_dir[c.intent.display_name], "trainingPhrases")
    THEN lint_language_codes(
             [c EXCEPT !.intent = build_lang_code_paths(@, lang_codes)],
             lang_codes)
    ELSE missing_training_phrases(c)

\* lint_intent_metadata without its except clause
lint_intent_metadata_uncaught(c) ==
    IF intents_dir[c.intent.display_name]["metadata"] THEN c
    ELSE Raise(c, "FileNotFoundError")

\* Intents.lint_intent_metadata; a metadata file that exists is well formed
lint_intent_metadata(c) ==
    IF intents_dir[c.intent.display_name]["metadata"] THEN c
    ELSE intent_missing_metadata(c)

\* Intents.lint_intent
lint_intent(c, lang_codes) ==
    LET it == check_intent_filters(
                  [c.intent EXCEPT
                     !.display_name = parse_filepath(c.intent.dir_path,
                                                     "intent")])
        c1 == [c EXCEPT !.intent = it]
    IN  IF it.filtered THEN c1
        ELSE lint_training_phrases(
                 lint_intent_metadata(
                     [c1 EXCEPT !.stats.total_intents = @ + 1]),
                 lang_codes)

\* the flows pass variables, which the other passes leave alone
flowsVars ==
    <<flow_paths, pages_dir, agent_type, page_paths, flow, route_parameters,
      page, args, files, dfs>>

\* the test cases pass variables
testCasesVars == <<test_case_paths, tc, tag_filter, display_name_filter>>

\* Intents.lint_intents_directory up to its loop: LintStats() and
\* build_intent_path_list
LintIntentsDirectory(paths) ==
    /\ pc = "lint_intents_directory"
    /\ paths \in Orders({"agent/intents/" \o d : d \in DOMAIN intents_dir})
    /\ stats' = LintStats
    /\ intent_paths' = paths
    /\ pc' = IF paths = <<>> THEN "calculate_rating" ELSE "lint_intent"
    /\ UNCHANGED <<include_filter, exclude_filter, disable_map, verbose,
                   console, rating, intents_dir, intent, lang_code_filter,
                   first_run>>
    /\ UNCHANGED flowsVars
    /\ UNCHANGED testCasesVars

\* one iteration of the loop of lint_intents_directory: Intent(), lint_intent
LintIntent(lang_codes) ==
    /\ pc = "lint_intent"
    /\ intent_paths # <<>>
    /\ LET dir_path == Head(intent_paths)
           listed == intents_dir[parse_filepath(dir_path, "intent")]
           c == lint_intent(
                    IntentCtx([Intent EXCEPT !.dir_path = dir_path],
                              stats, console),
                    lang_codes)
       IN  /\ lang_codes \in Orders(IF Has(listed, "trainingPhrases")
                                    THEN DOMAIN listed["trainingPhrases"]
                                    ELSE {})
           /\ intent_paths' = Tail(intent_paths)
           /\ intent' = c.intent
           /\ stats' = c.stats
           /\ console' = c.console
           /\ pc' = IF c.raised # "" THEN "raised"
                    ELSE IF intent_paths' = <<>> THEN "calculate_rating"
                    ELSE "lint_intent"
    /\ UNCHANGED <<include_filter, exclude_filter, disable_map, verbose,
                   rating, intents_dir, lang_code_filter, first_run>>
    /\ UNCHANGED flowsVars
    /\ UNCHANGED testCasesVars

InitFlowsIdle ==
    /\ flow_paths = <<>>
    /\ pages_dir = <<>>
    /\ agent_type = "voice"
    /\ page_paths = {}
    /\ flow = Flow
    /\ route_parameters = <<>>
    /\ page = Page("None")
    /\ args = <<0, 0>>

(***************************************************************************)
(* Inputs of the intents pass.                                             *)
(***************************************************************************)
IntentNames == {"head_intent.booking", "confirm.yes"}
LangCodes == {"en", "fr"}
PhraseCounts == {19, 20, 30, 50, 55}

\* n training phrases of one part each
Phrases(n) == [i \in 1..n |-> [parts |-> <<[text |-> "hi"]>>]]

\* the JSON data of a language file
TpData == {<<>>} \cup {[trainingPhrases |-> Phrases(n)] : n \in PhraseCounts}

\* the trainingPhrases directories of at most MaxLangs language files
TpDirs ==
    UNION {[L -> TpData] :
              L \in {X \in SUBSET LangCodes : Cardinality(X) <= MaxLangs}}

IntentFiles ==
    {[metadata |-> m] : m \in BOOLEAN}
    \cup {[metadata |-> m, trainingPhrases |-> d] :
             m \in BOOLEAN, d \in TpDirs}

IntentTrees ==
    UNION {[N -> IntentFiles] :
              N \in {X \in SUBSET IntentNames : Cardinality(X) <= MaxIntents}}

\* configurations: the disable list, the include and exclude patterns and
\* the language code filter
IntentConfigs ==
    {[disable |-> {}, include |-> "", exclude |-> "", lang |-> <<>>],
     [disable |-> {"intent-missing-metadata"}, include |-> "",
      exclude |-> "", lang |-> <<>>],
     [disable |-> {"intent-min-tps", "intent-missing-tps"}, include |-> "",
      exclude |-> "", lang |-> <<>>],
     [disable |-> {}, include |-> "head", exclude |-> "", lang |-> <<>>],
     [disable |-> {}, include |-> "head", exclude |-> "booking",
      lang |-> <<>>],
     [disable |-> {}, include |-> "", exclude |-> "", lang |-> <<"en">>]}

\* Common.load_message_controls: every listed rule name maps to False
load_message_controls(msg_list) == [msg \in msg_list |-> FALSE]

InitIntents ==
    /\ pc = "lint_intents_directory"
    /\ intents_dir \in IntentTrees
    /\ \E cfg \in IntentConfigs :
          /\ disable_map = load_message_controls(cfg.disable)
          /\ include_filter = cfg.include
          /\ exclude_filter = cfg.exclude
          /\ lang_code_filter = cfg.lang
    /\ intent_paths = <<>>
    /\ intent = Intent
    /\ verbose = FALSE
    /\ stats = LintStats
    /\ console = EmptyBag
    /\ rating = Fraction(10, 1)
    /\ InitFlowsIdle
    /\ InitTestCasesIdle
    /\ first_run = NoRun
    /\ dfs = NoTraversal
    /\ files = <<>>

NextIntents ==
    \/ \E paths \in Orders({"agent/intents/" \o d : d \in DOMAIN intents_dir}) :
          LintIntentsDirectory(paths)
    \/ \E lang_codes \in UNION {Orders(L) : L \in SUBSET LangCodes} :
          LintIntent(lang_codes)
    \/ CalculateRating

SpecIntents == InitIntents /\ [][NextIntents]_vars

(***************************************************************************)
(* The flows pass or the intents pass, each on its own configuration.      *)
(***************************************************************************)
InitFilters == Init \/ InitIntents

NextFilters == Next \/ NextIntents

SpecFilters == InitFilters /\ [][NextFilters]_vars

(***************************************************************************)
(* The test cases pass (resources/test_cases.py, rules/test_cases.py).     *)
(* The handlers are functions of c = [tc, stats, console, raised].         *)
(***************************************************************************)
TestCaseCtx(t, s, con) ==
    [tc |-> t, stats |-> s, console |-> con, raised |-> ""]

\* "".join(parts_list)
RECURSIVE Join(_)
Join(parts_list) ==
    IF parts_list = <<>> THEN ""
    ELSE Head(parts_list) \o Join(Tail(parts_list))

\* TestCases.flatten_tp_data, defined where tp_data has trainingPhrases
flatten_tp_data(tp_data) ==
    [i \in 1..Len(tp_data["trainingPhrases"]) |->
        LET tp == tp_data["trainingPhrases"][i]
        IN  Join([j \in 1..Len(tp["parts"]) |-> Lower(tp["parts"][j]["text"])])]

\* TestCases.get_test_case_intent_phrase_pair on the turns not yet visited;
\* the result is [pairs, raised]
RECURSIVE get_test_case_intent_phrase_pair(_)
get_test_case_intent_phrase_pair(turns) ==
    IF turns = <<>> THEN [pairs |-> <<>>, raised |-> ""]
    ELSE LET turn == Head(turns)
             user == turn["userInput"]
             agent == turn["virtualAgentOutput"]
             phrase == user["input"]
             text == IF Has(phrase, "text") THEN phrase["text"]["text"]
                     ELSE ""
             rest == get_test_case_intent_phrase_pair(Tail(turns))
         IN  IF ~Has(user, "input")
             THEN [pairs |-> <<>>, raised |-> "AttributeError"]
             ELSE IF Has(agent, "triggeredIntent") /\ text # ""
             THEN [rest EXCEPT !.pairs =
                      <<[user_utterance |-> text,
                         intent |-> agent["triggeredIntent"]["name"],
                         status |-> "valid",
                         training_phrases |-> <<>>]>> \o @]
             ELSE rest

\* the body of the try statement of gather_intent_tps for one pair: the
\* pair with its training phrases, or the exception that the except clause
\* catches; lang_codes is the listing of the trainingPhrases directory
RECURSIVE gather_lang_files(_, _, _)
gather_lang_files(pair, tps_dir, lang_codes) ==
    IF lang_codes = <<>> THEN [pair |-> pair, raised |-> ""]
    ELSE LET tp_data == tps_dir[Head(lang_codes)]
         IN  IF ~Has(tp_data, "trainingPhrases")
             THEN [pair |-> pair, raised |-> "KeyError"]
             ELSE gather_lang_files(
                      [pair EXCEPT !.training_phrases =
                                      @ \o flatten_tp_data(tp_data)],
                      tps_dir, Tail(lang_codes))

\* one iteration of the loop of gather_intent_tps
gather_pair(pair, listing) ==
    LET name == pair["intent"]
        r == IF name \notin DOMAIN intents_dir
             THEN [pair |-> pair, raised |-> "FileNotFoundError"]
             ELSE IF Has(intents_dir[name], "trainingPhrases")
             THEN gather_lang_files(pair, intents_dir[name]["trainingPhrases"],
                                    listing[name])
             ELSE [pair |-> pair, raised |-> ""]
    IN  IF r.raised # "" THEN [r.pair EXCEPT !.status = "invalid_intent"]
        ELSE r.pair

\* TestCases.gather_intent_tps
gather_intent_tps(t, listing) ==
    LET pairs == [i \in 1..Len(t.intent_data) |->
                     gather_pair(t.intent_data[i], listing)]
    IN  [t EXCEPT !.intent_data = pairs,
                  !.has_invalid_intent =
                      @ \/ \E i \in 1..Len(pairs) :
                              pairs[i]["status"] = "invalid_intent"]

\* TestCases.qualify_test_case
qualify_test_case(c, listing) ==
    LET t == c.tc
        tag_match == IF t.tags # <<>> /\ tag_filter # <<>>
                     THEN Range(t.tags) \cap Range(tag_filter) # {}
                     ELSE TRUE
        display_name_match == Contains(t.display_name, display_name_filter)
        found == get_test_case_intent_phrase_pair(t.conversation_turns)
        t1 == gather_intent_tps([t EXCEPT !.intent_data = found.pairs],
                                listing)
    IN  IF ~(tag_match /\ display_name_match) THEN c
        ELSE IF found.raised # "" THEN Raise(c, found.raised)
        ELSE [c EXCEPT !.tc = [t1 EXCEPT !.qualified = ~t1.has_invalid_intent]]

\* TestCaseRules.explicit_tps_in_tcs on the pairs not yet visited
RECURSIVE explicit_tps_in_tcs(_, _)
explicit_tps_in_tcs(c, pairs) ==
    IF pairs = <<>> THEN c
    ELSE LET pair == Head(pairs)
             c1 == [c EXCEPT !.stats.total_inspected = @ + 1]
             c2 == IF pair["user_utterance"]
                         \notin Range(pair["training_phrases"])
                   THEN generic_logger(
                            [c1 EXCEPT !.stats.total_issues = @ + 1],
                            "R007", c.tc.display_name,
                            ": [Utterance: " \o pair["user_utterance"]
                                \o " | Intent: " \o pair["intent"] \o "]")
                   ELSE c1
         IN  explicit_tps_in_tcs(c2, Tail(pairs))

\* TestCaseRules.invalid_intent_in_tcs
invalid_intent_in_tcs(c) ==
    LET n == Cardinality({i \in 1..Len(c.tc.intent_data) :
                             c.tc.intent_data[i]["status"] = "invalid_intent"})
    IN  generic_logger([c EXCEPT !.stats.total_inspected = @ + n,
                                 !.stats.total_issues = @ + n],
                       "R008", c.tc.display_name, "")

\* TestCases.lint_test_case on the JSON data of the test case file
lint_test_case(c, data, listing) ==
    LET t == [c.tc EXCEPT !.data = data,
                          !.display_name = data["displayName"],
                          !.tags = IF Has(data, "tags") THEN data["tags"]
                                   ELSE <<>>,
                          !.conversation_turns =
                              IF Has(data, "testCaseConversationTurns")
                              THEN data["testCaseConversationTurns"]
                              ELSE <<>>]
        c1 == qualify_test_case([c EXCEPT !.tc = t], listing)
        c2 == IF c1.tc.qualified /\ Enabled("explicit-tps-in-test-cases")
              THEN explicit_tps_in_tcs(
                       [c1 EXCEPT !.stats.total_test_cases = @ + 1],
                       c1.tc.intent_data)
              ELSE c1
    IN  IF c1.raised # "" THEN c1
        ELSE IF c2.tc.has_invalid_intent
                /\ Enabled("invalid-intent-in-test-cases")
        THEN invalid_intent_in_tcs(
                 [c2 EXCEPT !.stats.total_test_cases = @ + 1])
        ELSE c2

\* the variables of the intents pass that the test cases pass leaves alone
intentsVars == <<intent_paths, intent, lang_code_filter>>

\* TestCases.lint_test_cases_directory up to its loop: LintStats()
LintTestCasesDirectory ==
    /\ pc = "lint_test_cases_directory"
    /\ stats' = LintStats
    /\ pc' = IF test_case_paths = <<>> THEN "calculate_rating"
             ELSE "lint_test_case"
    /\ UNCHANGED <<include_filter, exclude_filter, disable_map, verbose,
                   console, rating, intents_dir, first_run>>
    /\ UNCHANGED flowsVars
    /\ UNCHANGED intentsVars
    /\ UNCHANGED testCasesVars

\* the listings os.listdir may give of the trainingPhrases directories
Listings ==
    {l \in [DOMAIN intents_dir -> UNION {Orders(L) : L \in SUBSET LangCodes}] :
        \A n \in DOMAIN intents_dir :
            l[n] \in Orders(IF Has(intents_dir[n], "trainingPhrases")
                            THEN DOMAIN intents_dir[n]["trainingPhrases"]
                            ELSE {})}

\* one iteration of the loop of lint_test_cases_directory: TestCase(),
\* lint_test_case on the data of the test case file
LintTestCase(data, listing) ==
    /\ pc = "lint_test_case"
    /\ test_case_paths # <<>>
    /\ listing \in Listings
    /\ LET c == lint_test_case(
                    TestCaseCtx([TestCase EXCEPT
                                   !.dir_path = Head(test_case_paths)],
                                stats, console),
                    data, listing)
       IN  /\ test_case_paths' = Tail(test_case_paths)
           /\ tc' = c.tc
           /\ stats' = c.stats
           /\ console' = c.console
           /\ pc' = IF c.raised # "" THEN "raised"
                    ELSE IF test_case_paths' = <<>> THEN "calculate_rating"
                    ELSE "lint_test_case"
    /\ UNCHANGED <<include_filter, exclude_filter, disable_map, verbose,
                   rating, intents_dir, tag_filter, display_name_filter,
                   first_run>>
    /\ UNCHANGED flowsVars
    /\ UNCHANGED intentsVars

(***************************************************************************)
(* Inputs of the test cases pass.                                          *)
(***************************************************************************)
Utterances == {"hello there", "Hello there"}

\* a turn with a text input and a triggered intent, with a text input and
\* no triggered intent, with a DTMF input, and with no input at all
TurnData ==
    {[userInput |-> [input |-> [text |-> [text |-> u]]],
      virtualAgentOutput |-> [triggeredIntent |-> [name |-> n]]] :
        u \in Utterances, n \in {"greet", "gone"}}
    \cup {[userInput |-> [input |-> [text |-> [text |-> "hello there"]]],
           virtualAgentOutput |-> <<>>],
          [userInput |-> [input |-> [dtmf |-> [digits |-> "1"]]],
           virtualAgentOutput |-> [triggeredIntent |-> [name |-> "gone"]]],
          [userInput |-> <<>>,
           virtualAgentOutput |-> [triggeredIntent |-> [name |-> "greet"]]]}

TestCaseData ==
    {[displayName |-> "tc-greeting", testCaseConversationTurns |-> t] :
        t \in SeqUpTo(TurnData, MaxTurns)}
    \cup {[displayName |-> "tc-greeting", tags |-> <<"#smoke">>,
           testCaseConversationTurns |-> t] :
             t \in SeqUpTo(TurnData, 1)}

\* the parts of the training phrases of a language file
PartTexts ==
    {<<"hello there">>, <<"Hello there">>, <<"Hello ", "there">>,
     <<"goodbye">>}

PhraseOf(texts) == [parts |-> [j \in 1..Len(texts) |-> [text |-> texts[j]]]]

\* the intents directory of the agent: intent greet, with one language
\* file of one or two training phrases, with a language file that holds no
\* trainingPhrases list, or without a trainingPhrases directory
TestCaseIntentTrees ==
    {[greet |-> [metadata |-> TRUE,
                 trainingPhrases |->
                     [en |-> [trainingPhrases |-> <<PhraseOf(p)>>]]]] :
        p \in PartTexts}
    \cup {[greet |-> [metadata |-> TRUE,
                      trainingPhrases |->
                          [en |-> [trainingPhrases |->
                                      <<PhraseOf(<<"goodbye">>),
                                        PhraseOf(<<"hello there">>)>>]]]],
          [greet |-> [metadata |-> TRUE,
                      trainingPhrases |-> [en |-> <<>>]]],
          [greet |-> [metadata |-> TRUE]]}

\* configurations: the disable list, the tag filter and the display name
\* pattern
TestCaseConfigs ==
    {[disable |-> {}, tags |-> <<>>, pattern |-> ""],
     [disable |-> {"explicit-tps-in-test-cases"}, tags |-> <<>>,
      pattern |-> ""],
     [disable |-> {"invalid-intent-in-test-cases"}, tags |-> <<>>,
      pattern |-> "greeting"],
     [disable |-> {}, tags |-> <<"#regress">>, pattern |-> ""],
     [disable |-> {}, tags |-> <<"#smoke">>, pattern |-> "billing"]}

TestCaseFiles == <<"agent/testCases/tc1.json", "agent/testCases/tc2.json">>

InitTestCases ==
    /\ pc = "lint_test_cases_directory"
    /\ intents_dir \in TestCaseIntentTrees
    /\ test_case_paths \in
          {SubSeq(TestCaseFiles, 1, k) :
              k \in 1..(IF MaxTestCases < Len(TestCaseFiles)
                        THEN MaxTestCases ELSE Len(TestCaseFiles))}
    /\ \E cfg \in TestCaseConfigs :
          /\ disable_map = load_message_controls(cfg.disable)
          /\ tag_filter = cfg.tags
          /\ display_name_filter = cfg.pattern
    /\ tc = TestCase
    /\ include_filter = ""
    /\ exclude_filter = ""
    /\ verbose = FALSE
    /\ stats = LintStats
    /\ console = EmptyBag
    /\ rating = Fraction(10, 1)
    /\ intent_paths = <<>>
    /\ intent = Intent
    /\ lang_code_filter = <<>>
    /\ InitFlowsIdle
    /\ first_run = NoRun
    /\ dfs = NoTraversal
    /\ files = <<>>

NextTestCases ==
    \/ LintTestCasesDirectory
    \/ \E data \in TestCaseData, listing \in Listings :
          LintTestCase(data, listing)
    \/ CalculateRating

SpecTestCases == InitTestCases /\ [][NextTestCases]_vars

(***************************************************************************)
(* Two runs of lint_agent on one CxLint object over an unchanged agent     *)
(* export: the flows pass reads every file from files, the intents pass    *)
(* from intents_dir.  The Flows object keeps its route_parameters and the  *)
(* console keeps the diagnostics of the first run.                         *)
(***************************************************************************)
PickupOrDelivery == "Would you like pickup or delivery?"
PickupOrDeliveryInstead == "Would you like pickup, or delivery instead?"

\* a route with a response message and a parameter preset
SpokenRoute(target, text) ==
    [intent |-> "order", targetPage |-> target,
     triggerFulfillment |->
         [messages |-> <<TextMessage(text)>>,
          setParameterActions |-> <<[parameter |-> "size", value |-> "L"]>>]]

\* the JSON data of the flow files and page files of the export
AgentFileData ==
    {[transitionRoutes |-> <<SpokenRoute("PageA", PickupOrDelivery)>>],
     [transitionRoutes |->
         <<SpokenRoute("OVERFLOW", PickupOrDeliveryInstead)>>],
     [transitionRoutes |-> <<[intent |-> "order", targetFlow |-> "Other"]>>],
     [transitionRoutes |-> <<>>],
     [eventHandlers |->
         <<[event |-> "sys.no-match-default", targetPage |-> "End Session",
            triggerFulfillment |-> [messages |-> <<TextMessage(Statement)>>]]>>]}

InitTwice ==
    \/ /\ InitFlows
       /\ files \in [FlowDirs \cup {d \o "/pages/" \o f :
                                      d \in FlowDirs, f \in PageFiles}
                     -> AgentFileData]
       /\ \A d \in FlowDirs : \A f \in PageFiles \ pages_dir[d] :
             files[d \o "/pages/" \o f] = [transitionRoutes |-> <<>>]
    \/ InitIntents

\* lint_agent is called again: the second run of the pass
SecondRun ==
    /\ pc = "done"
    /\ ~first_run.done
    /\ first_run' = [done |-> TRUE, stats |-> stats, console |-> console,
                     rating |-> rating]
    /\ IF files # <<>>
       THEN /\ pc' = "lint_flows_directory"
            /\ flow_paths' \in {<<d>> : d \in FlowDirs}
       ELSE /\ pc' = "lint_intents_directory"
            /\ UNCHANGED flow_paths
    /\ UNCHANGED <<pages_dir, include_filter, exclude_filter, agent_type,
                   disable_map, verbose, page_paths, flow, stats, console,
                   route_parameters, page, rating, args, files, dfs>>
    /\ UNCHANGED <<intents_dir, intent_paths, intent, lang_code_filter>>
    /\ UNCHANGED testCasesVars

NextTwice ==
    \/ LintFlowsDirectory
    \/ LintFlow(files[Head(flow_paths)])
    \/ \E page_file \in page_paths :
          LintPagesDirectory(page_file, files[page_file])
    \/ FindUnusedPages
    \/ FindDanglingPages
    \/ FindOrphanedPages
    \/ LintGraph
    \/ \E paths \in Orders({"agent/intents/" \o d : d \in DOMAIN intents_dir}) :
          LintIntentsDirectory(paths)
    \/ \E lang_codes \in UNION {Orders(L) : L \in SUBSET LangCodes} :
          LintIntent(lang_codes)
    \/ CalculateRating
    \/ SecondRun

SpecTwice == InitTwice /\ [][NextTwice]_vars

(***************************************************************************)
(* The flows pass on an export whose file contents are fixed while the     *)
(* directory listing returns the page files in any order: files holds the  *)
(* JSON data of the flow file and of every page file.                      *)
(***************************************************************************)
MaxListed == 2      \* page files the directory listing returns

\* a route that names a page and a flow, and a route that names neither
RouteToBoth ==
    [intent |-> "order", targetPage |-> "OVERFLOW", targetFlow |-> "Other"]

RouteToNone ==
    [intent |-> "order",
     triggerFulfillment |-> [messages |-> <<TextMessage(Statement)>>]]

\* the JSON data of the flow files and page files of the export
ListedFileData ==
    {[transitionRoutes |-> <<SpokenRoute("PageA", PickupOrDelivery)>>],
     [transitionRoutes |-> <<RouteToBoth>>],
     [transitionRoutes |->
         <<RouteToNone, [intent |-> "order", targetPage |-> "Start Page"]>>],
     [transitionRoutes |->
         <<[intent |-> "order", targetPage |-> "PageA"],
           [intent |-> "more", targetPage |-> "PageA"]>>],
     [transitionRoutes |-> <<>>],
     [eventHandlers |->
         <<[event |-> "sys.no-match-default", targetPage |-> "End Session",
            triggerFulfillment |-> [messages |-> <<TextMessage(Statement)>>]]>>]}

ListedTrees ==
    {t \in [FlowDirs -> SUBSET PageFiles] :
        \A d \in FlowDirs : Cardinality(t[d]) <= MaxListed}

InitListed ==
    /\ pc = "lint_flows_directory"
    /\ flow_paths \in {<<d>> : d \in FlowDirs}
    /\ pages_dir \in ListedTrees
    /\ include_filter = ""
    /\ exclude_filter = ""
    /\ agent_type = "voice"
    /\ disable_map = <<>>
    /\ verbose = FALSE
    /\ page_paths = {}
    /\ flow = Flow
    /\ stats = LintStats
    /\ console = EmptyBag
    /\ route_parameters = <<>>
    /\ page = Page("None")
    /\ rating = Fraction(10, 1)
    /\ args = <<0, 0>>
    /\ InitIntentsIdle
    /\ InitTestCasesIdle
    /\ first_run = NoRun
    /\ dfs = NoTraversal
    /\ files \in [FlowDirs \cup {d \o "/pages/" \o f :
                                   d \in FlowDirs, f \in PageFiles}
                  -> ListedFileData]
    /\ \A d \in FlowDirs : \A f \in PageFiles \ pages_dir[d] :
          files[d \o "/pages/" \o f] = [transitionRoutes |-> <<>>]

NextListed ==
    \/ LintFlowsDirectory
    \/ LintFlow(files[Head(flow_paths)])
    \/ \E page_file \in page_paths :
          LintPagesDirectory(page_file, files[page_file])
    \/ FindUnusedPages
    \/ FindDanglingPages
    \/ FindOrphanedPages
    \/ LintGraph
    \/ CalculateRating

SpecListed == InitListed /\ [][NextListed]_vars

(***************************************************************************)
(* The depth-first traversal of Flows.recurse_edges, one step of the       *)
(* interpreter at a time.  dfs.stack is the call stack: a frame is the     *)
(* page of the call and the position of its for loop in edges[page];      *)
(* dfs.entered lists the calls in the order they were made.                *)
(***************************************************************************)
MaxEdges == 2       \* edges that leave one node of a traversed graph

\* the call recurse_edges(edges, 'Start Page', dangling, visited) of
\* find_dangling_pages on a fresh flow
start_traversal(edges) ==
    [edges |-> edges, stack |-> <<[page |-> "Start Page", i |-> 1]>>,
     dangling |-> {}, visited |-> {}, entered |-> <<"Start Page">>]

\* the frame on top of the stack with its loop moved to the next edge
next_edge(stack) ==
    [stack EXCEPT ![Len(stack)].i = @ + 1]

\* the call returns to its caller
return(stack) == SubSeq(stack, 1, Len(stack) - 1)

\* recurse_edges, one step of a variant that recurses into a page without
\* marking it (the run is cut off after a fixed number of calls)
recurse_edges_step_unmarked(t) ==
    LET top == t.stack[Len(t.stack)]
    IN  IF top.page \notin DOMAIN t.edges
        THEN [t EXCEPT !.dangling = @ \cup {top.page},
                       !.stack = return(t.stack)]
        ELSE IF top.i > Len(t.edges[top.page])
        THEN [t EXCEPT !.stack = return(t.stack)]
        ELSE LET inner_page == t.edges[top.page][top.i]
             IN  IF Len(t.entered) < 3 * Cardinality(DOMAIN t.edges) + 3
                 THEN [t EXCEPT
                          !.stack = Append(next_edge(t.stack),
                                           [page |-> inner_page, i |-> 1]),
                          !.entered = Append(@, inner_page)]
                 ELSE [t EXCEPT !.stack = next_edge(t.stack)]

\* recurse_edges, one step: the else branch, the end of the for loop, or one
\* iteration of the for loop up to the recursive call
recurse_edges_step(t) ==
    LET top == t.stack[Len(t.stack)]
    IN  IF top.page \notin DOMAIN t.edges
        THEN [t EXCEPT !.dangling = @ \cup {top.page},
                       !.stack = return(t.stack)]
        ELSE IF top.i > Len(t.edges[top.page])
        THEN [t EXCEPT !.stack = return(t.stack)]
        ELSE LET inner_page == t.edges[top.page][top.i]
             IN  IF inner_page \notin t.visited
                 THEN [t EXCEPT
                          !.visited = @ \cup {inner_page},
                          !.stack = Append(next_edge(t.stack),
                                           [page |-> inner_page, i |-> 1]),
                          !.entered = Append(@, inner_page)]
                 ELSE [t EXCEPT !.stack = next_edge(t.stack)]

RecurseEdges ==
    /\ pc = "recurse_edges"
    /\ dfs' = recurse_edges_step(dfs)
    /\ pc' = IF dfs'.stack = <<>> THEN "returned" ELSE "recurse_edges"
    /\ UNCHANGED <<flow_paths, pages_dir, include_filter, exclude_filter,
                   agent_type, disable_map, verbose, page_paths, flow, stats,
                   console, route_parameters, page, rating, args>>
    /\ UNCHANGED <<intents_dir, intent_paths, intent, lang_code_filter,
                   test_case_paths, tc, tag_filter, display_name_filter,
                   first_run, files>>

\* the nodes of the traversed graphs and their edge lists
TraversalNodes == {"Start Page", "PageA", "OVERFLOW"}

TraversalEdges ==
    UNION {[S -> {e \in SeqUpTo(TraversalNodes, MaxEdges) : e # <<>>}] :
              S \in SUBSET TraversalNodes}

InitTraversal ==
    /\ pc = "recurse_edges"
    /\ InitFlowsIdle
    /\ include_filter = ""
    /\ exclude_filter = ""
    /\ disable_map = <<>>
    /\ verbose = FALSE
    /\ stats = LintStats
    /\ console = EmptyBag
    /\ rating = Fraction(10, 1)
    /\ InitIntentsIdle
    /\ InitTestCasesIdle
    /\ first_run = NoRun
    /\ files = <<>>
    /\ dfs \in {start_traversal(edges) : edges \in TraversalEdges}

NextTraversal == RecurseEdges

\* the interpreter keeps running the call until it returns
SpecTraversal ==
    InitTraversal /\ [][NextTraversal]_vars /\ WF_vars(NextTraversal)

(***************************************************************************)
(* Properties.                                                             *)
(***************************************************************************)
\* the targets of the edges that leave a node of S
Targets(g, S) == UNION {Range(g.edges[n]) : n \in S \cap DOMAIN g.edges}

\* the nodes reached from S by zero or more edges
RECURSIVE Closure(_, _)
Closure(g, S) ==
    LET T == S \cup Targets(g, S) IN IF T = S THEN S ELSE Closure(g, T)

\* the nodes reached from 'Start Page' by one or more edges
ReachableFromStart(g) == Closure(g, Targets(g, {"Start Page"}))

\* the display names of the page files in the pages directory of the flow
DeclaredPages ==
    UNION {{clean_page_display_name(
                parse_filepath(d \o "/pages/" \o file, "page")) :
               file \in pages_dir[d]} :
           d \in {x \in DOMAIN pages_dir :
                     parse_filepath(x, "flow") = flow.display_name}}

\* find_dangling_pages has run on the flow
DanglingDone ==
    /\ pc \in {"find_orphaned_pages", "lint_graph", "calculate_rating", "done"}
    /\ ~flow.filtered

\* the three passes of lint_flow have run on the flow
Analyzed ==
    /\ pc \in {"lint_graph", "calculate_rating", "done"}
    /\ ~flow.filtered

\* C1: after find_dangling_pages, active_pages is exactly the set of nodes
\* reachable from 'Start Page' by one or more edges, also on graphs with a
\* cycle back to 'Start Page'.
C1_ActiveIsReachable ==
    DanglingDone => flow.active_pages = ReachableFromStart(flow.graph)

\* C1 witness: a cycle through 'Start Page' and a page two edges away
C1_Witness ==
    /\ pc = "find_orphaned_pages"
    /\ "Start Page" \in flow.active_pages
    /\ "PageA" \in flow.active_pages
    /\ "End Session" \in flow.active_pages
    /\ "End Session" \notin Targets(flow.graph, {"Start Page"})

\* C2: after find_dangling_pages, dangling_pages is exactly the set of nodes
\* reachable from 'Start Page' that have no outgoing edge, minus the five
\* pseudo-pages and minus the cross-flow 'FLOW: <name>' tags.
C2_DanglingExact ==
    DanglingDone =>
        flow.dangling_pages =
            {n \in ReachableFromStart(flow.graph) \cup {"Start Page"} :
                n \notin DOMAIN flow.graph.edges}
            \ (Range(special_pages) \cup FlowTags)

\* C3 as stated: every page declared in the pages directory that is never the
\* target of a route is in unused_pages and not in active_pages.
C3_UntargetedIsUnused ==
    Analyzed =>
        \A p \in DeclaredPages :
            p \notin flow.graph.used_nodes =>
                p \in flow.unused_pages /\ p \notin flow.active_pages

\* C3 amended: every declared page, other than a pseudo-page name, that is
\* never the target of a route is not in active_pages; it is in unused_pages
\* when it has no outgoing route of its own, and otherwise it is in
\* orphaned_pages and not in unused_pages.
C3_UntargetedIsUnusedOrOrphaned ==
    Analyzed =>
        \A p \in DeclaredPages \ Range(special_pages) :
            p \notin flow.graph.used_nodes =>
                /\ p \notin flow.active_pages
                /\ IF p \in DOMAIN flow.graph.edges
                   THEN p \in flow.orphaned_pages /\ p \notin flow.unused_pages
                   ELSE p \in flow.unused_pages

\* C3 witness: a declared page without routes that nothing targets, next to
\* a page the Start Page reaches
C3_Witness ==
    /\ Analyzed
    /\ \E p \in DeclaredPages :
          p \notin flow.graph.used_nodes /\ p \notin DOMAIN flow.graph.edges
    /\ flow.active_pages # {}

\* C4: after the three passes unused_pages, dangling_pages and orphaned_pages
\* are pairwise disjoint.
C4_PairwiseDisjoint ==
    Analyzed =>
        /\ flow.unused_pages \cap flow.dangling_pages = {}
        /\ flow.unused_pages \cap flow.orphaned_pages = {}
        /\ flow.dangling_pages \cap flow.orphaned_pages = {}

\* C4 witness: a graph with a cycle, a dangling page and an orphaned page
C4_Witness ==
    /\ Analyzed
    /\ flow.dangling_pages # {}
    /\ flow.orphaned_pages # {}
    /\ \E n \in DOMAIN flow.graph.edges : n \in Closure(flow.graph, Targets(flow.graph, {n}))

\* C5 as stated: after loading and analysis all_pages is a superset of
\* active_pages.
C5_AllPagesSuperset == Analyzed => flow.active_pages \subseteq flow.all_pages

\* C5 amended: after loading and analysis every member of active_pages is in
\* all_pages, or is a pseudo-page, or is a cross-flow tag, or is a route
\* target that has no page file in the flow's pages directory.
C5_ActiveDeclaredInAllPages ==
    Analyzed =>
        \A n \in flow.active_pages :
            \/ n \in flow.all_pages
            \/ n \in Range(special_pages)
            \/ n \in FlowTags
            \/ n \notin DeclaredPages

\* C5 witness: a declared page and a pseudo-page are both active
C5_Witness ==
    /\ Analyzed
    /\ flow.active_pages \cap DeclaredPages # {}
    /\ flow.active_pages \cap Range(special_pages) # {}

\* C6: the final unused_pages and dangling_pages contain no pseudo-page and
\* no cross-flow 'FLOW: <name>' tag.
C6_NoPseudoPageNoTag ==
    Analyzed =>
        (flow.unused_pages \cup flow.dangling_pages)
            \cap (Range(special_pages) \cup FlowTags) = {}

\* C6 witness: the traversal ended on a pseudo-page and on a cross-flow tag
C6_Witness ==
    /\ Analyzed
    /\ "End Session" \in flow.active_pages
    /\ FlowTags \cap flow.active_pages # {}

\* C7: cross-flow tags never appear in unused_pages, dangling_pages or
\* orphaned_pages when these are handed to the graph rules.
C7_NoTagReported ==
    pc = "lint_graph" =>
        (flow.unused_pages \cup flow.dangling_pages \cup flow.orphaned_pages)
            \cap FlowTags = {}

\* a fraction lies between 0 and 10
InRange(r) == 0 <= r.num /\ r.num <= 10 * r.den

\* C8: at every point of the pass total_issues <= total_inspected, so the
\* rating reported at the end of the pass lies between 0 and 10.
C8_IssuesWithinInspected ==
    /\ stats.total_issues <= stats.total_inspected
    /\ pc = "done" => InRange(rating)

\* C9: calculate_rating(issues, inspected) returns 10*(1 - issues/inspected)
\* when inspected > 0 and 10 when inspected = 0.
C9_RatingFormula ==
    pc \in {"rated_common", "rated_cxlint"} =>
        /\ rating.raised = ""
        /\ IF args[2] > 0
           THEN rating.num * args[2] = 10 * (args[2] - args[1]) * rating.den
           ELSE rating.num = 10 * rating.den

\* some fulfillment of the page data calls a webhook
DeclaresWebhook(data) ==
    LET calls(d) == Has(d, "triggerFulfillment")
                    /\ Has(d["triggerFulfillment"], "webhook")
        list(key) == IF Has(data, key) THEN Range(data[key]) ELSE {}
        params == IF Has(data, "form") /\ Has(data["form"], "parameters")
                  THEN Range(data["form"]["parameters"]) ELSE {}
        reprompts(pm) ==
            IF Has(pm, "fillBehavior")
               /\ Has(pm["fillBehavior"], "repromptEventHandlers")
            THEN Range(pm["fillBehavior"]["repromptEventHandlers"]) ELSE {}
    IN  \/ Has(data, "entryFulfillment")
           /\ Has(data["entryFulfillment"], "webhook")
        \/ \E d \in list("transitionRoutes") \cup list("eventHandlers") :
              calls(d)
        \/ \E pm \in params : \E d \in reprompts(pm) : calls(d)

\* some event handler of the page data is triggered by 'webhook.error'
HandlesWebhookError(data) ==
    /\ Has(data, "eventHandlers")
    /\ \E d \in Range(data["eventHandlers"]) :
          Contains(GetStr(d, "event"), "webhook.error")

\* C10: for every page linted without an exception, R011 is emitted iff some
\* fulfillment of the page declares a webhook call and no event handler of
\* the page is triggered by 'webhook.error'.
C10_R011IffWebhookUnhandled ==
    (pc \in {"lint_pages_directory", "find_unused_pages"}
        /\ page.display_name # "None")
    => (<<"R011", page.display_name, "">> \in BagToSet(console)
            <=> (DeclaresWebhook(page.data) /\ ~HandlesWebhookError(page.data)))

\* the name under which the configuration disables each rule of the intents
\* pass
IntentRuleNames ==
    [R010 |-> "intent-missing-metadata", R004 |-> "intent-missing-tps",
     R005 |-> "intent-min-tps"]

\* C11: a rule that the disable list names never runs: the console holds no
\* diagnostic of a rule of the intents pass that is disabled.
C11_DisabledRuleNeverRuns ==
    \A e \in BagToSet(console) :
        e[1] \in DOMAIN IntentRuleNames => Enabled(IntentRuleNames[e[1]])

\* the sum of f over the finite set S
RECURSIVE SumOver(_, _)
SumOver(S, f) ==
    IF S = {} THEN 0
    ELSE LET x == CHOOSE y \in S : TRUE IN f[x] + SumOver(S \ {x}, f)

\* the intent directories that the include and exclude patterns let through
UnfilteredIntents ==
    {n \in DOMAIN intents_dir :
        /\ include_filter = "" \/ Contains(n, include_filter)
        /\ exclude_filter = "" \/ ~Contains(n, exclude_filter)}

\* the language files of intent n that the minimum training phrase rule reads
LintedLangs(n) ==
    IF Has(intents_dir[n], "trainingPhrases") /\ Enabled("intent-min-tps")
    THEN {l \in DOMAIN intents_dir[n]["trainingPhrases"] :
             lang_code_filter = <<>> \/ l \in Range(lang_code_filter)}
    ELSE {}

\* the inspections that the directory of intent n calls for
IntentInspections(n) ==
    (IF intents_dir[n]["metadata"] THEN 0 ELSE 1)
    + (IF ~Has(intents_dir[n], "trainingPhrases")
          /\ Enabled("intent-missing-tps") THEN 1 ELSE 0)
    + Cardinality(LintedLangs(n))

\* C15: a missing metadata file does not end the pass: every intent that is
\* not filtered is processed, an intent is reported under R010 exactly once
\* iff its metadata file is missing, with one inspection and one issue, its
\* training phrases are linted all the same, and the pass stops early only
\* on a language file without a trainingPhrases list.
C15_MissingMetadataContinues ==
    /\ pc = "calculate_rating" =>
          /\ \A n \in DOMAIN intents_dir :
                CopiesIn(<<"R010", n, "">>, console) =
                    IF n \in UnfilteredIntents /\ ~intents_dir[n]["metadata"]
                    THEN 1 ELSE 0
          /\ stats.total_intents = Cardinality(UnfilteredIntents)
          /\ stats.total_issues = BagCardinality(console)
          /\ stats.total_inspected =
                SumOver(UnfilteredIntents,
                        [n \in UnfilteredIntents |-> IntentInspections(n)])
          /\ \A n \in UnfilteredIntents : \A l \in LintedLangs(n) :
                Len(intents_dir[n]["trainingPhrases"][l]["trainingPhrases"])
                    < 20
                => \E e \in BagToSet(console) : e[1] = "R005" /\ e[2] = n
    /\ pc = "raised" =>
          \E n \in UnfilteredIntents : \E l \in LintedLangs(n) :
              ~Has(intents_dir[n]["trainingPhrases"][l], "trainingPhrases")

\* two intents were processed, one without a metadata file whose training
\* phrases were linted and reported
C15_Witness ==
    /\ pc = "calculate_rating"
    /\ stats.total_intents = 2
    /\ \E n \in DOMAIN intents_dir :
          /\ ~intents_dir[n]["metadata"]
          /\ CopiesIn(<<"R010", n, "">>, console) = 1
          /\ \E e \in BagToSet(console) : e[1] = "R005" /\ e[2] = n

\* the number of diagnostics of a rule on the console
RuleCount(rule) ==
    LET S == {e \in BagToSet(console) : e[1] = rule}
    IN  SumOver(S, [e \in S |-> CopiesIn(e, console)])

\* the R005 diagnostics of intent n for language l
MinTpsDiagnostics(n, l) ==
    {e \in BagToSet(console) :
        e[1] = "R005" /\ e[2] = n /\ StartsWith(e[3], ": " \o l \o " : (")}

\* C18: the minimum training phrase rule inspects each language code it is
\* run for exactly once and reports it, once and with the actual and the
\* required count, iff the intent is a head intent with fewer than 50
\* phrases or another intent with fewer than 20; a head intent with 30
\* phrases is reported with 30 and 50, one with 55 phrases is not.
C18_MinTrainingPhrases ==
    pc = "calculate_rating" =>
       /\ stats.total_inspected - RuleCount("R010") - RuleCount("R004") =
             SumOver(UnfilteredIntents,
                     [n \in UnfilteredIntents |->
                         Cardinality(LintedLangs(n))])
       /\ \A n \in UnfilteredIntents : \A l \in LintedLangs(n) :
             LET k == Len(intents_dir[n]["trainingPhrases"][l]
                              ["trainingPhrases"])
                 required == IF Contains(n, "head") THEN 50 ELSE 20
                 message == ": " \o l \o " : (" \o ToString(k) \o " / "
                                \o ToString(required) \o ")"
             IN  /\ MinTpsDiagnostics(n, l) =
                       IF k < required THEN {<<"R005", n, message>>} ELSE {}
                 /\ CopiesIn(<<"R005", n, message>>, console) =
                       IF k < required THEN 1 ELSE 0
       /\ \A e \in BagToSet(console) :
             e[1] = "R005" =>
                /\ e[2] \in UnfilteredIntents
                /\ \E l \in LintedLangs(e[2]) : e \in MinTpsDiagnostics(e[2], l)
       /\ \A n \in UnfilteredIntents : \A l \in LintedLangs(n) :
             n = "head_intent.booking" /\ l = "en" =>
                LET k == Len(intents_dir[n]["trainingPhrases"][l]
                                 ["trainingPhrases"])
                IN  /\ k = 30 =>
                          CopiesIn(<<"R005", n, ": en : (30 / 50)">>,
                                   console) = 1
                    /\ k = 55 => MinTpsDiagnostics(n, l) = {}

\* a head intent with 30 phrases in en was reported with 30 and 50, and an
\* intent that is not a head intent went unreported with 20 phrases
C18_Witness ==
    /\ pc = "calculate_rating"
    /\ CopiesIn(<<"R005", "head_intent.booking", ": en : (30 / 50)">>,
                console) = 1
    /\ "confirm.yes" \in UnfilteredIntents
    /\ \E l \in LintedLangs("confirm.yes") :
          /\ Len(intents_dir["confirm.yes"]["trainingPhrases"][l]
                     ["trainingPhrases"]) = 20
          /\ MinTpsDiagnostics("confirm.yes", l) = {}

\* C16: a flow or an intent whose display name matches the include filter
\* and the exclude filter is filtered, and linting a filtered resource puts
\* no diagnostic on the console and leaves total_issues and total_inspected
\* as they were.
C16_ExcludeWins ==
    [][/\ pc = "lint_flow" =>
             LET n == parse_filepath(Head(flow_paths), "flow")
             IN  /\ (/\ include_filter # "" /\ Contains(include_filter, n)
                     /\ exclude_filter # "" /\ Contains(exclude_filter, n))
                    => flow'.filtered
                 /\ flow'.filtered =>
                       /\ console' = console
                       /\ stats'.total_issues = stats.total_issues
                       /\ stats'.total_inspected = stats.total_inspected
       /\ pc = "lint_intent" =>
             LET n == parse_filepath(Head(intent_paths), "intent")
             IN  /\ (/\ include_filter # "" /\ Contains(n, include_filter)
                     /\ exclude_filter # "" /\ Contains(n, exclude_filter))
                    => intent'.filtered
                 /\ intent'.filtered =>
                       /\ console' = console
                       /\ stats'.total_issues = stats.total_issues
                       /\ stats'.total_inspected = stats.total_inspected
      ]_vars

\* a flow, or an intent whose directory lacks the metadata file, matched
\* both filters and was filtered
C16_Witness ==
    /\ include_filter # ""
    /\ exclude_filter # ""
    /\ \/ /\ flow.filtered
          /\ Contains(include_filter, flow.display_name)
          /\ Contains(exclude_filter, flow.display_name)
       \/ /\ intent.filtered
          /\ Contains(intent.display_name, include_filter)
          /\ Contains(intent.display_name, exclude_filter)
          /\ ~intents_dir[intent.display_name]["metadata"]

\* the training phrases of intent n as its language files spell them
RawPhrases(n) ==
    IF n \in DOMAIN intents_dir /\ Has(intents_dir[n], "trainingPhrases")
    THEN UNION {{Join([j \in 1..Len(tp["parts"]) |-> tp["parts"][j]["text"]]) :
                    tp \in Range(intents_dir[n]["trainingPhrases"][l]
                                     ["trainingPhrases"])} :
                   l \in {k \in DOMAIN intents_dir[n]["trainingPhrases"] :
                             Has(intents_dir[n]["trainingPhrases"][k],
                                 "trainingPhrases")}}
    ELSE {}

\* the turns of test case t that have the triggered intent n and the text
\* utterance u
TurnsWith(t, u, n) ==
    {i \in 1..Len(t.conversation_turns) :
        LET turn == t.conversation_turns[i]
        IN  /\ Has(turn["virtualAgentOutput"], "triggeredIntent")
            /\ turn["virtualAgentOutput"]["triggeredIntent"]["name"] = n
            /\ Has(turn["userInput"], "input")
            /\ Has(turn["userInput"]["input"], "text")
            /\ turn["userInput"]["input"]["text"]["text"] = u}

\* C12: linting a qualified test case puts on the console one R007
\* diagnostic for each turn with a triggered intent and a text utterance
\* that is not, letter for letter, one of the training phrases of the
\* intent, and none for a turn whose utterance is one of them.
C12_ExplicitTrainingPhrases ==
    [][(/\ pc = "lint_test_case"
        /\ tc'.qualified
        /\ Enabled("explicit-tps-in-test-cases"))
       => \A u \in Utterances : \A n \in {"greet", "gone"} :
             LET e == <<"R007", tc'.display_name,
                        ": [Utterance: " \o u \o " | Intent: " \o n \o "]">>
             IN  CopiesIn(e, console') - CopiesIn(e, console) =
                     IF u \in RawPhrases(n) THEN 0
                     ELSE Cardinality(TurnsWith(tc', u, n))
      ]_vars

\* test case t passes the tag filter and the display name pattern
PassesFilters(t) ==
    /\ t.tags = <<>> \/ tag_filter = <<>>
       \/ Range(t.tags) \cap Range(tag_filter) # {}
    /\ Contains(t.display_name, display_name_filter)

\* the turns of test case t whose triggered intent has no directory
TurnsWithoutIntentDir(t) ==
    {i \in 1..Len(t.conversation_turns) :
        LET agent == t.conversation_turns[i]["virtualAgentOutput"]
        IN  /\ Has(agent, "triggeredIntent")
            /\ agent["triggeredIntent"]["name"] \notin DOMAIN intents_dir}

\* C13: a linted test case with a turn whose triggered intent has no
\* directory is marked has_invalid_intent, is not qualified and is reported
\* under R008 and not under R007; qualified and has_invalid_intent are
\* never both true.
C13_InvalidIntentMarked ==
    /\ ~(tc.qualified /\ tc.has_invalid_intent)
    /\ (/\ pc \in {"lint_test_case", "calculate_rating", "done"}
        /\ tc.data # <<>>
        /\ PassesFilters(tc)
        /\ TurnsWithoutIntentDir(tc) # {})
       => /\ tc.has_invalid_intent
          /\ ~tc.qualified
          /\ Enabled("invalid-intent-in-test-cases")
                => CopiesIn(<<"R008", tc.display_name, "">>, console) >= 1

\* C14: a failure local to one flow file or page file, such as an event
\* handler without triggerFulfillment, never aborts the pass: no exception
\* leaves the loop over the flows and their pages while a page file of the
\* flow or another flow is still to be linted.
C14_LocalFailureNeverAborts ==
    pc = "raised" => page_paths = {} /\ flow_paths = <<>>

\* C17: the second run of a pass over the unchanged export ends with the
\* stats and the rating of the first run and has logged the diagnostics of
\* the first run once more.
C17_SecondRunIdentical ==
    first_run.done /\ pc = "done" =>
       /\ stats = first_run.stats
       /\ rating = first_run.rating
       /\ console = first_run.console (+) first_run.console

\* a second run of the flows pass that found route parameters of the first
\* run in the Flows object and logged diagnostics has ended
C17_Witness ==
    /\ first_run.done
    /\ pc = "done"
    /\ first_run.console # EmptyBag
    /\ first_run.stats.total_inspected > 0
    /\ \E f \in DOMAIN route_parameters : \E p \in DOMAIN route_parameters[f] :
          Len(route_parameters[f][p]) >= 2

\* the parameters of a form that have no reprompt handler whose event is of
\* the given kind ("no-match" or "no-input")
UnhandledParams(parameters, kind) ==
    {i \in DOMAIN parameters :
        ~(/\ Has(parameters[i], "fillBehavior")
          /\ Has(parameters[i]["fillBehavior"], "repromptEventHandlers")
          /\ \E h \in Range(parameters[i]["fillBehavior"]
                                ["repromptEventHandlers"]) :
                Contains(h["event"], kind))}

\* C19: for the page with form parameters linted last, the console holds
\* one R017 diagnostic for each parameter without a reprompt handler for a
\* no-match event and one R018 diagnostic for each parameter without a
\* reprompt handler for a no-input event.
C19_RepromptHandlersPerEvent ==
    (/\ pc \in {"lint_pages_directory", "find_unused_pages"}
     /\ page.display_name # "None"
     /\ Truthy(page.data, "form")
     /\ Has(page.data["form"], "parameters"))
    => LET parameters == page.data["form"]["parameters"]
       IN  /\ CopiesIn(<<"R017", page.display_name, ": size">>, console) =
                 Cardinality(UnhandledParams(parameters, "no-match"))
           /\ CopiesIn(<<"R018", page.display_name, ": size">>, console) =
                 Cardinality(UnhandledParams(parameters, "no-input"))

\* C20: on a voice agent, linting a flow file whose one response message is
\* "Would you like pickup or delivery?" logs one R001 diagnostic, and
\* linting one whose response message is "Would you like pickup, or
\* delivery instead?" logs none.
C20_ClosedChoiceScenario ==
    [][(/\ pc = "lint_flow"
        /\ agent_type = "voice"
        /\ files # <<>>
        /\ ~flow'.filtered
        /\ pc' # "raised")
       => LET data == files[Head(flow_paths)]
              fired == RuleCount("R001")' - RuleCount("R001")
          IN  /\ data = [transitionRoutes |->
                            <<SpokenRoute("PageA", PickupOrDelivery)>>]
                 => fired = 1
              /\ data = [transitionRoutes |->
                            <<SpokenRoute("OVERFLOW",
                                          PickupOrDeliveryInstead)>>]
                 => fired = 0
      ]_vars

\* the number of recurse_edges calls made on node n
EnteredCount(n) ==
    Cardinality({i \in 1..Len(dfs.entered) : dfs.entered[i] = n})

\* every call but the first one has marked its page as visited before
EnteredAfterVisited ==
    \A i \in 2..Len(dfs.entered) : dfs.entered[i] \in dfs.visited

\* C21: the traversal started at 'Start Page' returns on every finite flow
\* graph, self-loops and cycles through 'Start Page' included; a page is
\* added to visited before the recursion enters it, no page is entered
\* twice by the recursion, and only 'Start Page', which the first call
\* enters unmarked, is entered a second time when an edge leads back to it.
C21_TraversalTerminates ==
    /\ <>(pc = "returned")
    /\ [](/\ EnteredAfterVisited
          /\ \A n \in TraversalNodes :
                EnteredCount(n) <= IF n = "Start Page" THEN 2 ELSE 1
          /\ pc = "returned" =>
                [dangling |-> dfs.dangling, visited |-> dfs.visited]
                = recurse_edges(dfs.edges, "Start Page", {}, {}))

\* C21 witness: a finished traversal of a graph with a self-loop and a
\* cycle through 'Start Page'
C21_Witness ==
    /\ pc = "returned"
    /\ "Start Page" \in dfs.visited
    /\ "PageA" \in dfs.visited \cap DOMAIN dfs.edges
    /\ "PageA" \in Range(dfs.edges["PageA"])
    /\ "Start Page" \in Range(dfs.edges["PageA"])

\* C21 as stated: the traversal returns and no node is entered twice
C21_NoNodeEnteredTwice ==
    /\ <>(pc = "returned")
    /\ [](\A n \in TraversalNodes : EnteredCount(n) <= 1)

\* find_unused_pages has run on the flow
UnusedDone ==
    /\ pc \in {"find_dangling_pages", "find_orphaned_pages", "lint_graph",
               "calculate_rating", "done"}
    /\ ~flow.filtered

\* the targets of all the edges of the graph
EdgeTargets(g) == Targets(g, DOMAIN g.edges)

\* C22: after find_unused_pages, unused_pages is exactly the set of declared
\* non-pseudo pages that are neither the target nor the source of an edge,
\* and every declared non-pseudo page that is never a target but has an
\* outgoing edge is in orphaned_pages and not in unused_pages.
C22_UnusedExactly ==
    UnusedDone =>
        LET declared == DeclaredPages \ Range(special_pages)
            g == flow.graph
        IN  /\ flow.unused_pages =
                  {p \in declared :
                      p \notin EdgeTargets(g) /\ p \notin DOMAIN g.edges}
            /\ \A p \in declared :
                  p \notin EdgeTargets(g) /\ p \in DOMAIN g.edges =>
                      p \in flow.orphaned_pages /\ p \notin flow.unused_pages

\* C22 witness: right after find_unused_pages, a declared page with a route
\* of its own that nothing targets
C22_Witness ==
    /\ pc = "find_dangling_pages"
    /\ ~flow.filtered
    /\ \E p \in DeclaredPages :
          /\ p \notin EdgeTargets(flow.graph)
          /\ p \in DOMAIN flow.graph.edges
          /\ p \in flow.orphaned_pages
    /\ "Start Page" \in DOMAIN flow.graph.edges

\* the symmetric difference of two sets
SymmetricDifference(A, B) == (A \ B) \cup (B \ A)

\* the declared pages find_unused_pages moves to orphaned_pages
Reclassified(f) ==
    {p \in f.all_pages \ Range(special_pages) :
        p \notin f.graph.used_nodes /\ p \in DOMAIN f.graph.edges}

\* C23: after the three passes orphaned_pages is the symmetric difference of
\* active_pages and the used nodes, united with the pages find_unused_pages
\* reclassified; every edge target that is not reachable from 'Start Page'
\* is in orphaned_pages, and no node reachable from 'Start Page' is, also
\* when an unreachable page routes to it.
C23_OrphanedExactly ==
    Analyzed =>
        LET g == flow.graph
        IN  /\ flow.orphaned_pages =
                  SymmetricDifference(flow.active_pages, g.used_nodes)
                  \cup Reclassified(flow)
            /\ \A n \in EdgeTargets(g) \ ReachableFromStart(g) :
                  n \in flow.orphaned_pages
            /\ \A n \in ReachableFromStart(g) : n \notin flow.orphaned_pages

\* C23 witness: an unreachable page with a route to a node the Start Page
\* reaches and a route to a node it does not reach
C23_Witness ==
    /\ Analyzed
    /\ \E p \in Reclassified(flow) :
          /\ Range(flow.graph.edges[p]) \cap ReachableFromStart(flow.graph) # {}
          /\ Range(flow.graph.edges[p]) \ ReachableFromStart(flow.graph) # {}

\* the transition routes and the event handlers of a flow or page file
RoutesIn(data) ==
    (IF "transitionRoutes" \in DOMAIN data
     THEN data["transitionRoutes"] ELSE <<>>)
    \o (IF "eventHandlers" \in DOMAIN data
        THEN data["eventHandlers"] ELSE <<>>)

\* the number of times x occurs in a list
CountIn(seq, x) == Cardinality({i \in 1..Len(seq) : seq[i] = x})

\* the edges that leave node n
EdgesFrom(g, n) == IF n \in DOMAIN g.edges THEN g.edges[n] ELSE <<>>

\* every file of the flow has been wired into the graph
Wired ==
    /\ pc \in {"find_unused_pages", "find_dangling_pages",
               "find_orphaned_pages", "lint_graph", "calculate_rating",
               "done"}
    /\ files # <<>>
    /\ ~flow.filtered

\* the owning page of each file of the flow: 'Start Page' for the flow file
Owners ==
    [d \in DOMAIN pages_dir |-> "Start Page"]
    @@ [p \in UNION {{d \o "/pages/" \o f : f \in pages_dir[d]} :
                        d \in DOMAIN pages_dir}
           |-> clean_page_display_name(parse_filepath(p, "page"))]

\* the routes of a file that name the target x in the field key
Naming(data, key, x) ==
    {i \in 1..Len(RoutesIn(data)) :
        /\ TruthyStr(RoutesIn(data)[i], key)
        /\ x = (IF key = "targetFlow" THEN "FLOW: " ELSE "")
               \o RoutesIn(data)[i][key]}

\* C24 as stated: every route or event handler that carries a targetPage or
\* a targetFlow field contributes exactly one edge from its page, with or
\* without a triggerFulfillment, and a route with neither field adds none.
C24_OneEdgePerRoute ==
    Wired =>
        \A p \in DOMAIN Owners :
            Len(EdgesFrom(flow.graph, Owners[p])) =
                Cardinality({i \in 1..Len(RoutesIn(files[p])) :
                    \/ "targetPage" \in DOMAIN RoutesIn(files[p])[i]
                    \/ "targetFlow" \in DOMAIN RoutesIn(files[p])[i]})

\* C24 amended: every route or event handler contributes one edge from its
\* page for each of the fields targetPage and targetFlow that it carries
\* with a non-empty value, to the page name or to 'FLOW: <flow name>', with
\* or without a triggerFulfillment; a route with neither field adds none.
C24_OneEdgePerTargetField ==
    Wired =>
        \A p \in DOMAIN Owners :
            \A x \in Range(EdgesFrom(flow.graph, Owners[p]))
                     \cup TargetPages \cup FlowTags :
                CountIn(EdgesFrom(flow.graph, Owners[p]), x) =
                    Cardinality(Naming(files[p], "targetPage", x))
                    + Cardinality(Naming(files[p], "targetFlow", x))

\* C24 witness: the files of the flow hold a route without triggerFulfillment
\* that names a page and a flow, a route that names neither, and an event
\* handler with a target page
C24_Witness ==
    /\ Wired
    /\ \E p \in DOMAIN Owners : RouteToBoth \in Range(RoutesIn(files[p]))
    /\ \E p \in DOMAIN Owners : RouteToNone \in Range(RoutesIn(files[p]))
    /\ \E p \in DOMAIN Owners : "eventHandlers" \in DOMAIN files[p]

\* the calls of lint_flow from the first reachability pass to the graph rules
PassesAndRules ==
    {"find_unused_pages", "find_dangling_pages", "find_orphaned_pages",
     "lint_graph"}

\* when the first pass starts, every file of the flow is wired and no pass
\* has run
WiredBeforePasses ==
    pc = "find_unused_pages" =>
        /\ page_paths = {}
        /\ DeclaredPages \subseteq flow.graph.nodes
        /\ flow.unused_pages = {} /\ flow.active_pages = {}
        /\ flow.dangling_pages = {} /\ flow.orphaned_pages = {}

\* one step of the pass keeps the order of lint_flow
PassesInOrder ==
    /\ pc' = "find_unused_pages" =>
          pc \in {"lint_flow", "lint_pages_directory"}
    /\ pc' = "find_dangling_pages" => pc = "find_unused_pages"
    /\ pc' = "find_orphaned_pages" => pc = "find_dangling_pages"
    /\ pc' = "lint_graph" => pc = "find_orphaned_pages"
    /\ pc = "find_unused_pages" => pc' = "find_dangling_pages"
    /\ pc = "find_dangling_pages" => pc' = "find_orphaned_pages"
    /\ pc = "find_orphaned_pages" => pc' = "lint_graph"
    /\ pc \in PassesAndRules =>
          /\ flow'.graph = flow.graph
          /\ flow'.all_pages \subseteq flow.all_pages
    /\ pc = "lint_graph" =>
          /\ flow' = flow
          /\ pc' \notin PassesAndRules

\* C25: within lint_flow no reachability pass runs before the Start Page and
\* every page file of the flow are wired into the graph; the passes run in
\* the order find_unused_pages, find_dangling_pages, find_orphaned_pages,
\* the graph rules run after all three, and the graph of the flow does not
\* change once the first pass has started.
C25_PassesAfterWiring == []WiredBeforePasses /\ [][PassesInOrder]_vars

\* C25 witness: the graph rules are about to run on a flow of two page
\* files, with edges from the Start Page and from both pages
C25_Witness ==
    /\ pc = "lint_graph"
    /\ Cardinality(flow.all_pages) = 2
    /\ flow.all_pages \cup {"Start Page"} \subseteq DOMAIN flow.graph.edges

\* the flow as the loaders left it, before any pass
Unanalyzed(f) ==
    [f EXCEPT !.unused_pages = {}, !.active_pages = {},
              !.dangling_pages = {}, !.orphaned_pages = {}]

\* the three passes with find_unused_pages run last, and run second
UnusedLast(f) ==
    find_unused_pages(find_orphaned_pages(find_dangling_pages(f)))

UnusedSecond(f) ==
    find_orphaned_pages(find_unused_pages(find_dangling_pages(f)))

\* the nodes with outgoing edges, no incoming edge and no declared page
UndeclaredSources(f) ==
    {n \in DOMAIN f.graph.edges :
        n \notin EdgeTargets(f.graph) /\ n \notin f.all_pages}

\* C26 as stated: on a flow graph with a page that has outgoing edges, no
\* incoming edge and no declared-page membership, running find_unused_pages
\* after the other two passes gives other final sets than running it first.
C26_OrderMatters ==
    pc = "lint_graph" /\ UndeclaredSources(flow) # {} =>
        UnusedLast(Unanalyzed(flow)) # flow

\* C26 amended: the sets the analysis ends with do not depend on when
\* find_unused_pages runs; running it after find_dangling_pages and
\* find_orphaned_pages, or between them, gives the unused_pages,
\* dangling_pages and orphaned_pages of the order unused, dangling, orphaned.
C26_UnusedPassCommutes ==
    pc = "lint_graph" =>
        /\ UnusedLast(Unanalyzed(flow)) = flow
        /\ UnusedSecond(Unanalyzed(flow)) = flow

\* C26 witness: the passes have run on a graph with a reclassified page, an
\* unreached target and a Start Page that nothing routes to
C26_Witness ==
    /\ pc = "lint_graph"
    /\ Reclassified(flow) # {}
    /\ flow.graph.used_nodes \ flow.active_pages # {}
    /\ "Start Page" \in UndeclaredSources(flow)

\* the number of the sets active_pages, unused_pages and orphaned_pages that
\* hold page p
Classifications(p) ==
    Cardinality({s \in {"active", "unused", "orphaned"} :
        \/ s = "active" /\ p \in flow.active_pages
        \/ s = "unused" /\ p \in flow.unused_pages
        \/ s = "orphaned" /\ p \in flow.orphaned_pages})

\* C27: after the three passes every declared non-pseudo page, a member of
\* all_pages, is in exactly one of active_pages, unused_pages and
\* orphaned_pages.
C27_ClassifiedOnce ==
    Analyzed =>
        /\ DeclaredPages \ Range(special_pages) = flow.all_pages
        /\ \A p \in flow.all_pages : Classifications(p) = 1

\* C27 witness: an analysed flow with an active page and an orphaned page
C27_Witness ==
    /\ Analyzed
    /\ flow.all_pages \cap flow.active_pages # {}
    /\ flow.all_pages \cap flow.orphaned_pages # {}

\* C28: in every state of the flow loader the used nodes of the graph are
\* exactly the targets of its edges; after the traversal active_pages is a
\* subset of the used nodes, so the symmetric difference of
\* find_orphaned_pages is the used nodes minus active_pages, and every node
\* reachable from 'Start Page' is a used node.
C28_UsedNodesAreEdgeTargets ==
    /\ flow.graph.used_nodes = EdgeTargets(flow.graph)
    /\ DanglingDone =>
          /\ flow.active_pages \subseteq flow.graph.used_nodes
          /\ SymmetricDifference(flow.active_pages, flow.graph.used_nodes)
             = flow.graph.used_nodes \ flow.active_pages
          /\ ReachableFromStart(flow.graph) \subseteq flow.graph.used_nodes

\* C28 witness: after the traversal, a graph with a route to a page and an
\* edge from that page to a route group, both reached from the Start Page
C28_Witness ==
    /\ DanglingDone
    /\ "Support" \in flow.graph.used_nodes \cap flow.active_pages
    /\ Cardinality(flow.active_pages) > 1

\* C29: in every pass each increment of total_issues comes with exactly one
\* diagnostic and each diagnostic with exactly one increment, so
\* total_issues equals the number of diagnostics emitted, also for a test
\* case with several invalid intents.
C29_IssuePerDiagnostic == stats.total_issues = BagCardinality(console)

\* the page files of the flow directory d
PagePathsOf(d) == {d \o "/pages/" \o f : f \in pages_dir[d]}

\* lint_pages_directory on the page files in the order of the listing
RECURSIVE LintPagesInOrder(_, _)
LintPagesInOrder(c, order) ==
    IF order = <<>> THEN c
    ELSE LintPagesInOrder(
             lint_page([c EXCEPT !.stats.total_pages = @ + 1],
                       Head(order), files[Head(order)]),
             Tail(order))

\* the page sets, the diagnostics and the counters of a result
Outcome(f, log, counters) ==
    [all_pages |-> f.all_pages, active_pages |-> f.active_pages,
     unused_pages |-> f.unused_pages, dangling_pages |-> f.dangling_pages,
     orphaned_pages |-> f.orphaned_pages, console |-> log,
     stats |-> counters]

\* the outcome of linting the flow directory d when the directory listing
\* returns its page files in the given order
OutcomeInOrder(d, order) ==
    LET f == check_flow_filters(
                 [Flow EXCEPT !.display_name = parse_filepath(d, "flow")])
        c0 == lint_start_page(
                  Ctx(f, [LintStats EXCEPT !.total_flows = 1], EmptyBag,
                      <<>>, Page("None")),
                  files[d])
        c1 == LintPagesInOrder(c0, order)
        c2 == lint_graph(
                  [c1 EXCEPT !.flow =
                      find_orphaned_pages(
                          find_dangling_pages(find_unused_pages(@)))])
    IN  Outcome(c2.flow, c2.console, c2.stats)

====
